---- MODULE Spec2Model ----
(***************************************************************************)
(* A state-machine model of the plasma_physics repository.                 *)
(*                                                                         *)
(* The module holds one group of variables per component and one           *)
(* specification per component:                                            *)
(*   SpecCoax    - CoupledCoaxialLinerImplosion (construction, the         *)
(*                 run_simulation loop with injected circuit/liner models) *)
(*   SpecScatter - NanbuCollisionModel.__calculate_A and                   *)
(*                 __calculate_cos_chi on arrays of s                      *)
(*   SpecNanbu   - NanbuCollisionModel (construction, run_sim and the      *)
(*                 single_time_step calls it makes)                        *)
(* Every specification initialises the variables of the other components   *)
(* to an idle value and leaves them unchanged.                             *)
(*                                                                         *)
(* Floating-point numbers are modelled as exact rationals (integers over a *)
(* stated denominator); the IEEE special values inf, -inf and nan are      *)
(* modelled where the code tests for them.                                 *)
(***************************************************************************)
EXTENDS Integers, Sequences, FiniteSets, TLC

VARIABLES
    \* ---- CoupledCoaxialLinerImplosion ----
    cc_pc,            \* position of the caller: "constructed", "circuit", "liner", "returned"
    times,            \* self._times: the time grid, a sequence of rationals <<num, den>>
    circuit_model,    \* self.circuit_model: the instance created by the constructor
    liner_model,      \* self.liner_model
    decoupled,        \* argument of run_simulation
    ts,               \* loop index of enumerate(self._times), 0-based
    R, L, L_dot,      \* the feedback locals of run_simulation
    I,                \* the current returned by the circuit model
    circuit_calls,    \* log of circuit_model.evolve_timestep(ts, t, R, L, L_dot) calls
    liner_calls,      \* log of liner_model.evolve_timestep(ts, I) calls
    liner_returns,    \* log of the liner's return tuples
    cc_result,        \* the value run_simulation returned, <<>> before it returns
    \* ---- NanbuCollisionModel: the A(s) lookup and the scattering cosine ----
    sc_pc,            \* "idle", "input", "A_done", "done", "failed"
    sc_table,         \* self.__A_data: the tabulated s (row 0) and A (row 1)
    sc_s,             \* the array s handed to __calculate_A and __calculate_cos_chi
    sc_A,             \* the array A
    sc_rule,          \* per element of A: the branch of __calculate_A that produced it
    sc_U,             \* the uniform samples drawn by __calculate_cos_chi
    sc_cos_chi,       \* the array cos_chi
    sc_error,         \* the exception that ended the computation, or "none"
    \* ---- NanbuCollisionModel: construction, run_sim, single_time_step ----
    nb_pc,            \* "idle", "new", "constructed", "loop", "shuffled", "scattered",
                      \* "done", "failed"
    nb_args,          \* the arguments handed to __init__
    true_division,    \* the interpreter divides two ints exactly (TRUE) or floors (FALSE)
    nb_self,          \* the instance: its private fields, <<>> while there is none
    temperature,      \* self.temperature: "unset", "None" or "estimated"
    nb_error,         \* the exception that ended the call, or "none"
    rng_stream,       \* np.random: the outputs the seeded generator produces, cyclically
    rng_pos,          \* np.random state: outputs consumed since the seed, -1 unseeded
    run_args,         \* the arguments handed to run_sim, <<>> before the call
    returned,         \* the arrays single_time_step returned to run_sim, in call order
    velocities,       \* run_sim: velocities, one 3-vector per row
    dt,               \* run_sim: dt
    num_steps,        \* run_sim: num_steps
    vel_results,      \* run_sim: vel_results, one array per sample index
    sim_times,        \* run_sim: times
    idx,              \* run_sim: idx
    t,                \* run_sim: t
    indices,          \* single_time_step: indices
    velocities_A,     \* single_time_step: velocities_A, rows [p, v]
    velocities_B,     \* single_time_step: velocities_B, rows [p, v]
    half,             \* single_time_step: n, the row count of the first half
    step_input,       \* the array handed to the current single_time_step call
    step_result,      \* the array the last single_time_step call returned
    pairs,            \* the collisions of the last single_time_step call
    n_calls,          \* number of single_time_step calls made by run_sim
    nb_result,        \* what run_sim returned, <<>> before
    \* ---- ReactionRatesCalculator.get_reaction_rates ----
    rr_pc,            \* "idle", "called", "returned", "failed"
    rr_T,             \* get_reaction_rates: the argument T
    rr_rho,           \* get_reaction_rates: the argument rho
    rr_TEMP,          \* the returned TEMP, <<>> before the return
    rr_RHO,           \* the returned RHO
    rr_rate,          \* the returned reaction_rate
    rr_error,         \* the exception that ended the call, or "none"
    \* ---- NewcombSolver ----
    nc_pc,            \* "idle", "args", "constructed", "scan", "bisect", "scanned", "stability", "returned", "failed"
    nc_args,          \* the arguments of NewcombSolver(...)
    nc_self,          \* the fields __init__ sets, <<>> before
    nc_error,         \* the exception that ended a call, or "none"
    r_crossings,      \* self.r_crossings
    nc_scans,         \* number of find_zero_crossings_in_f calls that returned
    nc_i,             \* find_zero_crossings_in_f: position of r_local in self.r (from 1)
    sign,             \* find_zero_crossings_in_f: sign
    r_prev,           \* find_zero_crossings_in_f: r_prev
    r_crossing_prev,  \* find_zero_crossings_in_f: r_crossing_prev
    r_crossing,       \* find_zero_crossings_in_f: r_crossing
    r_min,            \* find_zero_crossings_in_f: r_min
    r_max,            \* find_zero_crossings_in_f: r_max
    iterations,       \* find_zero_crossings_in_f: iterations
    refined,          \* history: the crossings the bisection has refined in this scan
    ds_i,             \* determine_stability: position of r_crossing in self.r_crossings (from 1)
    ds_r_min,         \* determine_stability: r_min
    unstable,         \* determine_stability: unstable
    segments,         \* history: the segments determine_stability has integrated
    any_negative,     \* history: whether eta was negative on one of them
    eta_negative,     \* determine_stability: np.any(eta[:, 0] < 0.0) of the last segment
    nc_result,        \* what determine_stability returned, "None" before
    \* ---- run_simulation / run_sim (electron cusp confinement) ----
    tr_pc,            \* "idle", "called", "loop", "returned"
    driver,           \* which of the three trajectory drivers runs
    domain_size,      \* run_simulation: domain_size
    tr_num_steps,     \* run_simulation: num_steps
    tr_i,             \* run_simulation: i, the index of the for loop
    tr_X,                \* run_simulation: X
    tr_V,                \* run_simulation: V
    positions,        \* run_simulation: positions
    tr_velocities,    \* run_simulation: velocities
    pushed,           \* history: the positions boris_solver has returned
    tr_result,        \* what run_simulation returned: an escape index or None
    \* ---- run_parallel_sims / get_radial_distributions (electron cusp confinement) ----
    script,           \* which campaign script runs its get_radial_distributions
    pool_args,        \* get_radial_distributions: the work units of args that are followed
    tasks,            \* pool.map: for each followed unit, its chunk and its place in the chunk
    num_chunks,       \* pool.map: how many chunks args was cut into
    dispatched,       \* how many units of args the pool has handed to a worker
    workers,          \* each pool process: what it is doing and on which unit
    dirs,             \* the directories that exist
    files,            \* history: for each path written, the units that wrote it
    failed,           \* the units that raised FileExistsError
    skipped,          \* the units never run: an earlier unit of their chunk raised
    completed,        \* the units that returned
    \* ---- PIC particle data model and ChargedParticleTest.test_constructor ----
    pp_pc,            \* "idle", "called", "constructed", "error", "tested"
    pp_args,          \* the arguments of the particle constructor
    pp_particle,      \* the constructed particle: mass, charge, position, velocity
    pp_test,          \* test_constructor: "unset", "pass", "fail"
    \* ---- process_radial_locations (004 process_velocity_distributions.py) ----
    ag_pc,            \* "idle", "listed", "radial", "x", "y", "z", "done", "error"
    ag_files,         \* the arrays np.loadtxt reads from the listed files of each kind
    ag_count,         \* process_radial_locations: count, the index of the file loop
    radial_numbers,   \* process_radial_locations: radial_numbers
    radial_numbers_half_set, \* process_radial_locations: radial_numbers_half_set
    v_x_numbers,      \* process_radial_locations: v_x_numbers
    v_y_numbers,      \* process_radial_locations: v_y_numbers
    v_z_numbers,      \* process_radial_locations: v_z_numbers
    v_x_numbers_half_set, \* process_radial_locations: v_x_numbers_half_set
    v_y_numbers_half_set, \* process_radial_locations: v_y_numbers_half_set
    v_z_numbers_half_set,  \* process_radial_locations: v_z_numbers_half_set
    \* ---- product_reactant_sims.py: generate_sim_results ----
    th_pc,            \* "idle", "start", "loop", "instantiate", "failed", "done"
    reactant_name,    \* argument of generate_sim_results
    th_densities,     \* argument number_densities of generate_sim_results
    th_j,             \* index into names of the outer loop, 0-based
    th_i,             \* index into number_densities of the inner loop, 0-based
    th_call,          \* the pending NanbuCollisionModel(...) call, <<>> when there is none
    th_error,         \* the exception that ended generate_sim_results, or "none"
    th_run_sims,      \* the number of sim.run_sim calls reached
    \* ---- get_particle_count ----
    cn_pc,            \* "idle", "called", "returned"
    cn_script,        \* the script whose get_particle_count is called
    cn_args,          \* the arguments of get_particle_count
    position_count,   \* get_particle_count: position_count, indexed from 0
    velocity_count    \* get_particle_count: velocity_count, indexed from 0

coaxVars == <<cc_pc, times, circuit_model, liner_model, decoupled, ts, R, L, L_dot, I,
              circuit_calls, liner_calls, liner_returns, cc_result>>

scatterVars == <<sc_pc, sc_table, sc_s, sc_A, sc_rule, sc_U, sc_cos_chi, sc_error>>

nanbuVars == <<nb_pc, nb_args, true_division, nb_self, temperature, nb_error, rng_stream, rng_pos,
               run_args, returned, velocities, dt, num_steps, vel_results, sim_times, idx, t, indices,
               velocities_A, velocities_B, half, step_input, step_result, pairs, n_calls,
               nb_result>>

ratesVars == <<rr_pc, rr_T, rr_rho, rr_TEMP, rr_RHO, rr_rate, rr_error>>

newcombVars == <<nc_pc, nc_args, nc_self, nc_error, r_crossings, nc_scans, nc_i, sign, r_prev,
                 r_crossing_prev, r_crossing, r_min, r_max, iterations, refined, ds_i,
                 ds_r_min, unstable, segments, any_negative, eta_negative, nc_result>>

trajectoryVars == <<tr_pc, driver, domain_size, tr_num_steps, tr_i, tr_X, tr_V, positions,
                    tr_velocities, pushed, tr_result>>

batchVars == <<script, pool_args, tasks, num_chunks, dispatched, workers, dirs, files, failed,
               skipped, completed>>

particleVars == <<pp_pc, pp_args, pp_particle, pp_test>>

aggregateVars == <<ag_pc, ag_files, ag_count, radial_numbers, radial_numbers_half_set,
                   v_x_numbers, v_y_numbers, v_z_numbers, v_x_numbers_half_set,
                   v_y_numbers_half_set, v_z_numbers_half_set>>

thermalVars == <<th_pc, reactant_name, th_densities, th_j, th_i, th_call, th_error,
                 th_run_sims>>

countVars == <<cn_pc, cn_script, cn_args, position_count, velocity_count>>

vars == <<coaxVars, scatterVars, nanbuVars, ratesVars, newcombVars, trajectoryVars, batchVars, particleVars, aggregateVars, thermalVars, countVars>>

(***************************************************************************)
(* Bounds of the model.                                                    *)
(***************************************************************************)
MaxTimeResolution == 3
MaxPairs == 2
MaxSpecies == 3
MaxDensity == 3
MaxFinalTime == 3
MaxRaw == 1

(***************************************************************************)
(* Idle values: a specification of one component holds the variables of    *)
(* the other components at these values.                                   *)
(***************************************************************************)
CoaxIdle ==
    /\ cc_pc = "idle"
    /\ times = <<>>
    /\ circuit_model = <<>> /\ liner_model = <<>>
    /\ decoupled = FALSE
    /\ ts = 0
    /\ R = 0 /\ L = 0 /\ L_dot = 0 /\ I = 0
    /\ circuit_calls = <<>> /\ liner_calls = <<>> /\ liner_returns = <<>>
    /\ cc_result = <<>>

ScatterIdle ==
    /\ sc_pc = "idle"
    /\ sc_table = <<>>
    /\ sc_s = <<>> /\ sc_A = <<>> /\ sc_rule = <<>> /\ sc_U = <<>> /\ sc_cos_chi = <<>>
    /\ sc_error = "none"

NanbuIdle ==
    /\ nb_pc = "idle"
    /\ nb_args = <<>>
    /\ true_division = TRUE
    /\ nb_self = <<>>
    /\ temperature = "unset"
    /\ nb_error = "none"
    /\ rng_stream = <<>>
    /\ rng_pos = -1
    /\ run_args = <<>> /\ returned = <<>>
    /\ velocities = <<>>
    /\ dt = 0 /\ num_steps = 0
    /\ vel_results = <<>> /\ sim_times = <<>>
    /\ idx = 0 /\ t = 0
    /\ indices = <<>> /\ velocities_A = <<>> /\ velocities_B = <<>> /\ half = 0
    /\ step_input = <<>> /\ step_result = <<>> /\ pairs = <<>>
    /\ n_calls = 0
    /\ nb_result = <<>>

RatesIdle ==
    /\ rr_pc = "idle"
    /\ rr_T = <<>> /\ rr_rho = <<>>
    /\ rr_TEMP = <<>> /\ rr_RHO = <<>> /\ rr_rate = <<>>
    /\ rr_error = "none"

NewcombIdle ==
    /\ nc_pc = "idle"
    /\ nc_args = <<>> /\ nc_self = <<>> /\ nc_error = "none"
    /\ r_crossings = <<>> /\ nc_scans = 0
    /\ nc_i = 0 /\ sign = "None" /\ r_prev = "None" /\ r_crossing_prev = "None"
    /\ r_crossing = "None" /\ r_min = "None" /\ r_max = "None" /\ iterations = 0
    /\ refined = <<>>
    /\ ds_i = 0 /\ ds_r_min = "None" /\ unstable = FALSE
    /\ segments = <<>> /\ any_negative = FALSE /\ eta_negative = FALSE
    /\ nc_result = "None"

TrajectoryIdle ==
    /\ tr_pc = "idle"
    /\ driver = "none" /\ domain_size = 0 /\ tr_num_steps = 0 /\ tr_i = 0
    /\ tr_X = <<>> /\ tr_V = <<>> /\ positions = <<>> /\ tr_velocities = <<>>
    /\ pushed = <<>> /\ tr_result = [none |-> TRUE, index |-> 0]

BatchIdle ==
    /\ script = "none" /\ pool_args = <<>> /\ dispatched = 0
    /\ workers = <<>> /\ dirs = {} /\ files = <<>> /\ failed = {}
    /\ tasks = <<>> /\ num_chunks = 0 /\ skipped = {} /\ completed = {}

ParticleIdle ==
    /\ pp_pc = "idle" /\ pp_args = <<>> /\ pp_particle = <<>> /\ pp_test = "unset"

AggregateIdle ==
    /\ ag_pc = "idle" /\ ag_files = <<>> /\ ag_count = 0
    /\ radial_numbers = <<>> /\ radial_numbers_half_set = <<>>
    /\ v_x_numbers = <<>> /\ v_y_numbers = <<>> /\ v_z_numbers = <<>>
    /\ v_x_numbers_half_set = <<>> /\ v_y_numbers_half_set = <<>> /\ v_z_numbers_half_set = <<>>

ThermalIdle ==
    /\ th_pc = "idle" /\ reactant_name = "" /\ th_densities = <<>> /\ th_j = 0 /\ th_i = 0
    /\ th_call = <<>> /\ th_error = "none" /\ th_run_sims = 0

CountIdle ==
    /\ cn_pc = "idle" /\ cn_script = "" /\ cn_args = <<>>
    /\ position_count = <<>> /\ velocity_count = <<>>

notCoaxVars == <<scatterVars, nanbuVars, ratesVars, newcombVars, trajectoryVars, batchVars, particleVars, aggregateVars, thermalVars, countVars>>

notScatterVars == <<coaxVars, nanbuVars, ratesVars, newcombVars, trajectoryVars, batchVars, particleVars, aggregateVars, thermalVars, countVars>>

notNanbuVars == <<coaxVars, scatterVars, ratesVars, newcombVars, trajectoryVars, batchVars, particleVars, aggregateVars, thermalVars, countVars>>

notRatesVars == <<coaxVars, scatterVars, nanbuVars, newcombVars, trajectoryVars, batchVars, particleVars, aggregateVars, thermalVars, countVars>>

notNewcombVars == <<coaxVars, scatterVars, nanbuVars, ratesVars, trajectoryVars, batchVars, particleVars, aggregateVars, thermalVars, countVars>>

notTrajectoryVars == <<coaxVars, scatterVars, nanbuVars, ratesVars, newcombVars, batchVars, particleVars, aggregateVars, thermalVars, countVars>>

notBatchVars == <<coaxVars, scatterVars, nanbuVars, ratesVars, newcombVars, trajectoryVars, particleVars, aggregateVars, thermalVars, countVars>>

notParticleVars == <<coaxVars, scatterVars, nanbuVars, ratesVars, newcombVars, trajectoryVars, batchVars, aggregateVars, thermalVars, countVars>>

notAggregateVars == <<coaxVars, scatterVars, nanbuVars, ratesVars, newcombVars, trajectoryVars, batchVars, particleVars, thermalVars, countVars>>

notThermalVars == <<coaxVars, scatterVars, nanbuVars, ratesVars, newcombVars, trajectoryVars, batchVars, particleVars, aggregateVars, countVars>>

notCountVars == <<coaxVars, scatterVars, nanbuVars, ratesVars, newcombVars, trajectoryVars, batchVars, particleVars, aggregateVars, thermalVars>>

OthersIdleCoax == ScatterIdle /\ NanbuIdle /\ RatesIdle /\ NewcombIdle /\ TrajectoryIdle /\ BatchIdle /\ ParticleIdle /\ AggregateIdle /\ ThermalIdle /\ CountIdle

OthersIdleScatter == CoaxIdle /\ NanbuIdle /\ RatesIdle /\ NewcombIdle /\ TrajectoryIdle /\ BatchIdle /\ ParticleIdle /\ AggregateIdle /\ ThermalIdle /\ CountIdle

OthersIdleNanbu == CoaxIdle /\ ScatterIdle /\ RatesIdle /\ NewcombIdle /\ TrajectoryIdle /\ BatchIdle /\ ParticleIdle /\ AggregateIdle /\ ThermalIdle /\ CountIdle

OthersIdleRates == CoaxIdle /\ ScatterIdle /\ NanbuIdle /\ NewcombIdle /\ TrajectoryIdle /\ BatchIdle /\ ParticleIdle /\ AggregateIdle /\ ThermalIdle /\ CountIdle

OthersIdleNewcomb == CoaxIdle /\ ScatterIdle /\ NanbuIdle /\ RatesIdle /\ TrajectoryIdle /\ BatchIdle /\ ParticleIdle /\ AggregateIdle /\ ThermalIdle /\ CountIdle

OthersIdleTrajectory == CoaxIdle /\ ScatterIdle /\ NanbuIdle /\ RatesIdle /\ NewcombIdle /\ BatchIdle /\ ParticleIdle /\ AggregateIdle /\ ThermalIdle /\ CountIdle

OthersIdleBatch == CoaxIdle /\ ScatterIdle /\ NanbuIdle /\ RatesIdle /\ NewcombIdle /\ TrajectoryIdle /\ ParticleIdle /\ AggregateIdle /\ ThermalIdle /\ CountIdle

OthersIdleParticle == CoaxIdle /\ ScatterIdle /\ NanbuIdle /\ RatesIdle /\ NewcombIdle /\ TrajectoryIdle /\ BatchIdle /\ AggregateIdle /\ ThermalIdle /\ CountIdle

OthersIdleAggregate == CoaxIdle /\ ScatterIdle /\ NanbuIdle /\ RatesIdle /\ NewcombIdle /\ TrajectoryIdle /\ BatchIdle /\ ParticleIdle /\ ThermalIdle /\ CountIdle

OthersIdleThermal == CoaxIdle /\ ScatterIdle /\ NanbuIdle /\ RatesIdle /\ NewcombIdle /\ TrajectoryIdle /\ BatchIdle /\ ParticleIdle /\ AggregateIdle /\ CountIdle

OthersIdleCount == CoaxIdle /\ ScatterIdle /\ NanbuIdle /\ RatesIdle /\ NewcombIdle /\ TrajectoryIdle /\ BatchIdle /\ ParticleIdle /\ AggregateIdle /\ ThermalIdle

(***************************************************************************)
(* CoupledCoaxialLinerImplosion                                            *)
(***************************************************************************)

\* The values the injected collaborators may return.  The concrete circuit and
\* liner physics are supplied by the caller; they are modelled as arbitrary
\* functions, i.e. each return value is a free choice.
Currents == {7, 8}
Resistances == {1, 2}
Inductances == {3, 4}
InductanceRates == {5}
FinalTimes == {1, 2}

\* np.linspace(0.0, final_time, time_resolution): n evenly spaced samples over
\* [0, final_time], endpoint included; a single sample is the start point.
Linspace(final_time, n) ==
    [k \in 1..n |-> IF n = 1 THEN <<0, 1>> ELSE <<final_time * (k - 1), n - 1>>]

\* __init__: builds the time grid and instantiates both injected models on it.
\* The instances are identified by the grid they were built on.
CoaxConstruct(time_resolution, final_time) ==
    /\ times = Linspace(final_time, time_resolution)
    /\ circuit_model = [kind |-> "circuit", times |-> Linspace(final_time, time_resolution)]
    /\ liner_model = [kind |-> "liner", times |-> Linspace(final_time, time_resolution)]

CoaxInit ==
    /\ \E n \in 0..MaxTimeResolution, ft \in FinalTimes : CoaxConstruct(n, ft)
    /\ cc_pc = "constructed"
    /\ decoupled = FALSE
    /\ ts = 0
    /\ R = 0 /\ L = 0 /\ L_dot = 0
    /\ I = 0
    /\ circuit_calls = <<>>
    /\ liner_calls = <<>>
    /\ liner_returns = <<>>
    /\ cc_result = <<>>
    /\ OthersIdleCoax

\* run_simulation(decoupled): lines 41-43, entry of the loop.
RunSimulation(d) ==
    /\ cc_pc = "constructed"
    /\ decoupled' = d
    /\ R' = 0 /\ L' = 0 /\ L_dot' = 0
    /\ ts' = 0
    /\ cc_pc' = "circuit"
    /\ UNCHANGED <<times, circuit_model, liner_model, I, circuit_calls, liner_calls,
                   liner_returns, cc_result>>
    /\ UNCHANGED notCoaxVars

\* Faulty variants of CircuitFeedback: the reset of lines 45-48 dropped, and
\* the feedback of line 54 never carried forward.
CircuitFeedbackCarried == <<R, L, L_dot>>

CircuitFeedbackAlwaysReset == <<0, 0, 0>>

\* The feedback triple handed to the circuit model: reset when decoupled.
CircuitFeedback ==
    IF decoupled THEN <<0, 0, 0>> ELSE <<R, L, L_dot>>

\* Faulty variant of GridExhausted: the last grid index is skipped.
GridExhaustedEarly == ts + 1 >= Len(times)

\* The for statement of line 44 has no element left.
GridExhausted == ts >= Len(times)

\* Faulty variant of StopsOn: the break of line 58 never taken.
StopsOnNever(implosion_complete) == FALSE

\* The completion test of line 57.
StopsOn(implosion_complete) == implosion_complete

\* One pass of the loop head and the circuit call (lines 44-51): taken while the
\* time grid has an element left.
CircuitEvolve ==
    /\ cc_pc = "circuit"
    /\ ~GridExhausted
    /\ LET fb == CircuitFeedback IN
         /\ R' = fb[1] /\ L' = fb[2] /\ L_dot' = fb[3]
         /\ circuit_calls' = Append(circuit_calls,
                [ts |-> ts, t |-> times[ts + 1], R |-> fb[1], L |-> fb[2], L_dot |-> fb[3]])
    /\ \E cur \in Currents : I' = cur
    /\ cc_pc' = "liner"
    /\ UNCHANGED <<times, circuit_model, liner_model, decoupled, ts, liner_calls,
                   liner_returns, cc_result>>
    /\ UNCHANGED notCoaxVars

\* What run_simulation hands back (line 60).
ReturnValue == <<circuit_model, liner_model>>

\* Faulty variant of LinerArguments: the liner is handed the next time index.
LinerArgumentsNextIndex == [ts |-> ts + 1, I |-> I]

\* The arguments of self.liner_model.evolve_timestep(ts, I), line 54.
LinerArguments == [ts |-> ts, I |-> I]

\* The liner call and the completion test (lines 54-58).
LinerEvolve ==
    /\ cc_pc = "liner"
    /\ liner_calls' = Append(liner_calls, LinerArguments)
    /\ \E r \in Resistances, l \in Inductances, ld \in InductanceRates,
          implosion_complete \in BOOLEAN :
         /\ R' = r /\ L' = l /\ L_dot' = ld
         /\ liner_returns' = Append(liner_returns,
                [R |-> r, L |-> l, L_dot |-> ld, implosion_complete |-> implosion_complete])
         /\ IF StopsOn(implosion_complete)
              THEN /\ cc_pc' = "returned"
                   /\ cc_result' = ReturnValue
                   /\ ts' = ts
              ELSE /\ cc_pc' = "circuit"
                   /\ cc_result' = cc_result
                   /\ ts' = ts + 1
    /\ UNCHANGED <<times, circuit_model, liner_model, decoupled, I, circuit_calls>>
    /\ UNCHANGED notCoaxVars

\* The loop is exhausted: the for statement ends and line 60 returns.
LoopExhausted ==
    /\ cc_pc = "circuit"
    /\ GridExhausted
    /\ cc_pc' = "returned"
    /\ cc_result' = ReturnValue
    /\ UNCHANGED <<times, circuit_model, liner_model, decoupled, ts, R, L, L_dot, I,
                   circuit_calls, liner_calls, liner_returns>>
    /\ UNCHANGED notCoaxVars

CoaxNext ==
    \/ \E d \in BOOLEAN : RunSimulation(d)
    \/ CircuitEvolve
    \/ LinerEvolve
    \/ LoopExhausted

SpecCoax == CoaxInit /\ [][CoaxNext]_vars

FairSpecCoax == CoaxInit /\ [][CoaxNext]_vars /\ WF_vars(CoaxNext)

(***************************************************************************)
(* Properties of CoupledCoaxialLinerImplosion                              *)
(***************************************************************************)

\* The 0-based time index at which the liner first reported completion, as a
\* position in the log of its returns (0 when it has not).
FirstCompletion ==
    IF \E k \in 1..Len(liner_returns) : liner_returns[k].implosion_complete
      THEN CHOOSE k \in 1..Len(liner_returns) :
             /\ liner_returns[k].implosion_complete
             /\ \A j \in 1..(k - 1) : ~liner_returns[j].implosion_complete
      ELSE 0

\* C1: run_simulation stops at the first completion report: once the liner has
\* returned implosion_complete at time index k, run_simulation has returned and
\* neither model was evolved for an index greater than k; a completion on the
\* first call leaves exactly one circuit evolve and one liner evolve, whatever
\* the length of the time grid.
C1_StopsAtFirstCompletion ==
    FirstCompletion # 0 =>
        /\ cc_pc = "returned"
        /\ Len(liner_returns) = FirstCompletion
        /\ Len(liner_calls) = FirstCompletion
        /\ Len(circuit_calls) = FirstCompletion
        /\ \A j \in 1..Len(circuit_calls) : circuit_calls[j].ts <= FirstCompletion - 1
        /\ \A j \in 1..Len(liner_calls) : liner_calls[j].ts <= FirstCompletion - 1

\* The liner completes on its first call although the grid has more indices.
C1_Witness ==
    /\ Len(times) = MaxTimeResolution
    /\ Len(times) > 1
    /\ FirstCompletion = 1
    /\ cc_pc = "returned"
    /\ Len(circuit_calls) = 1

\* C2: with decoupled = True every circuit evolve receives (R, L, L_dot) =
\* (0, 0, 0), whatever the liner returned on earlier steps.
C2_DecoupledFeedbackIsZero ==
    decoupled =>
        \A j \in 1..Len(circuit_calls) :
            /\ circuit_calls[j].R = 0
            /\ circuit_calls[j].L = 0
            /\ circuit_calls[j].L_dot = 0

\* A decoupled run in which the circuit is evolved again after the liner has
\* returned a non-zero feedback triple.
C2_Witness ==
    /\ decoupled
    /\ Len(circuit_calls) >= 2
    /\ liner_returns[1].R # 0
    /\ liner_returns[1].L # 0
    /\ liner_returns[1].L_dot # 0

\* C3: with decoupled = False the circuit evolve at index 0 receives (0, 0, 0)
\* and the one at index k >= 1 receives the triple the liner returned at k - 1.
C3_CoupledFeedbackIsPreviousLinerOutput ==
    (cc_pc # "constructed" /\ ~decoupled) =>
        \A j \in 1..Len(circuit_calls) :
            /\ circuit_calls[j].ts = j - 1
            /\ IF j = 1
                 THEN /\ circuit_calls[j].R = 0
                      /\ circuit_calls[j].L = 0
                      /\ circuit_calls[j].L_dot = 0
                 ELSE /\ circuit_calls[j].R = liner_returns[j - 1].R
                      /\ circuit_calls[j].L = liner_returns[j - 1].L
                      /\ circuit_calls[j].L_dot = liner_returns[j - 1].L_dot

\* A coupled run whose third circuit evolve follows two different liner outputs.
C3_Witness ==
    /\ cc_pc # "constructed" /\ ~decoupled
    /\ Len(circuit_calls) >= 3
    /\ liner_returns[1].R # liner_returns[2].R

\* The liner never reported completion during the run.
NeverComplete ==
    \A k \in 1..Len(liner_returns) : ~liner_returns[k].implosion_complete

\* C4: run_simulation terminates, and when the liner never reports completion it
\* has then evolved the circuit and the liner exactly once for each index of the
\* time grid, in ascending order 0 .. time_resolution - 1, the liner after the
\* circuit, and returns the two instances created by the constructor.
C4_ExhaustsGridAndReturns ==
    /\ <>(cc_pc = "returned")
    /\ [](cc_pc = "returned" =>
            /\ cc_result = <<circuit_model, liner_model>>
            /\ circuit_model = [kind |-> "circuit", times |-> times]
            /\ liner_model = [kind |-> "liner", times |-> times]
            /\ NeverComplete =>
                 /\ Len(circuit_calls) = Len(times)
                 /\ Len(liner_calls) = Len(times)
                 /\ \A j \in 1..Len(times) :
                      /\ circuit_calls[j].ts = j - 1
                      /\ circuit_calls[j].t = times[j]
                      /\ liner_calls[j].ts = j - 1)

\* A run over the longest grid that returned without any completion report.
C4_Witness ==
    /\ cc_pc = "returned"
    /\ NeverComplete
    /\ Len(times) = MaxTimeResolution
    /\ Len(liner_calls) = MaxTimeResolution

(***************************************************************************)
(* Numbers.  A float is an exact rational n/d (d > 0, lowest terms) or one *)
(* of the IEEE special values inf, -inf, nan.                              *)
(***************************************************************************)
RECURSIVE GCD(_, _)
GCD(a, b) == IF b = 0 THEN a ELSE GCD(b, a % b)

Abs(x) == IF x < 0 THEN -x ELSE x

\* The rational n/d in lowest terms with a positive denominator.
Fin(n, d) ==
    LET g == GCD(Abs(n), Abs(d))
        sgn == IF d < 0 THEN -1 ELSE 1
    IN [k |-> "fin", n |-> sgn * (n \div g), d |-> sgn * (d \div g)]

Inf == [k |-> "inf", n |-> 0, d |-> 1]
NaN == [k |-> "nan", n |-> 0, d |-> 1]

IsFin(x) == x.k = "fin"

\* x < y and x > y as IEEE compares them: every comparison with nan is false.
Lt(x, y) ==
    CASE x.k = "nan" \/ y.k = "nan" -> FALSE
      [] x.k = "inf" -> FALSE
      [] y.k = "inf" -> TRUE
      [] OTHER -> LET g == GCD(x.d, y.d) IN x.n * (y.d \div g) < y.n * (x.d \div g)

Gt(x, y) == Lt(y, x)

Le(x, y) ==
    CASE x.k = "nan" \/ y.k = "nan" -> FALSE
      [] OTHER -> ~Lt(y, x)

\* Arithmetic on finite values, over the least common denominator.
Add(x, y) ==
    LET g == GCD(x.d, y.d)
    IN Fin(x.n * (y.d \div g) + y.n * (x.d \div g), (x.d \div g) * y.d)

Neg(x) == [x EXCEPT !.n = -x.n]

Sub(x, y) == Add(x, Neg(y))

Mul(x, y) ==
    LET g1 == GCD(Abs(x.n), y.d)
        g2 == GCD(Abs(y.n), x.d)
    IN Fin((x.n \div g1) * (y.n \div g2), (x.d \div g2) * (y.d \div g1))

Div(x, y) == Mul(x, IF y.n < 0 THEN Fin(-y.d, -y.n) ELSE Fin(y.d, y.n))

\* exp(x) for a finite x >= 0.  The exponential is represented by its Taylor
\* polynomial of degree 2, 1 + x + x^2/2: a rational that is 1 at 0, greater
\* than 1 and increasing for x > 0, which is all the range of the scattering
\* cosine depends on.  exp(-x) is its reciprocal.
ExpT(x) == Fin(2 * x.d * x.d + 2 * x.n * x.d + x.n * x.n, 2 * x.d * x.d)

\* np.sinh(A) overflows to inf above about 710.47 in double precision.
SinhOverflows(A) == Gt(A, Fin(710, 1))

(***************************************************************************)
(* NanbuCollisionModel.__calculate_A and __calculate_cos_chi               *)
(***************************************************************************)
max_s == 6

\* The lookup tables A_interpolation_values.txt may hold: row 0 the sampled s
\* (increasing), row 1 the A values.  The file is external data; three shapes
\* are drawn: a table that ends below max_s, one with a zero A entry, and one
\* that reaches beyond max_s.
ScatterTables ==
    { [s_data |-> <<Fin(1, 1), Fin(2, 1), Fin(4, 1)>>,
       A_data |-> <<Fin(2, 1), Fin(1, 1), Fin(1, 2)>>],
      [s_data |-> <<Fin(1, 1), Fin(2, 1), Fin(4, 1)>>,
       A_data |-> <<Fin(2, 1), Fin(0, 1), Fin(1, 2)>>],
      [s_data |-> <<Fin(1, 1), Fin(8, 1)>>,
       A_data |-> <<Fin(1, 1), Fin(1, 4)>>] }

\* interp1d(s_data, A_data)(s_val) raises ValueError when s_val is below the
\* first or above the last sample; a nan compares false with both and passes.
InterpolatorRaises(table, s_val) ==
    \/ Lt(s_val, table.s_data[1])
    \/ Gt(s_val, table.s_data[Len(table.s_data)])

\* The linear interpolant at an s_val inside the table; nan for a nan.
Interpolate(table, s_val) ==
    IF ~IsFin(s_val) THEN NaN
    ELSE LET x == table.s_data
             y == table.A_data
             i == CHOOSE j \in 1..(Len(x) - 1) : Le(x[j], s_val) /\ Le(s_val, x[j + 1])
             slope == Div(Sub(y[i + 1], y[i]), Sub(x[i + 1], x[i]))
         IN Add(y[i], Mul(slope, Sub(s_val, x[i])))

\* 1.0 / s_val on a numpy float: division by zero gives inf.
Reciprocal(s_val) ==
    IF s_val.n = 0 THEN Inf ELSE Fin(s_val.d, s_val.n)

\* Faulty variant of ExtrapolationRule: the test against the end of the table
\* made before the test against max_s.
ExtrapolationRuleSwapped(table, s_val) ==
    IF Lt(s_val, table.s_data[1]) THEN "inverse_s"
    ELSE IF Lt(table.s_data[Len(table.s_data)], s_val) THEN "exp_s"
    ELSE IF Gt(s_val, Fin(max_s, 1)) THEN "cap"
    ELSE "unexpected"

\* The except branch of __calculate_A (lines 122-129): which rule applies.
ExtrapolationRule(table, s_val) ==
    IF Lt(s_val, table.s_data[1]) THEN "inverse_s"
    ELSE IF Gt(s_val, Fin(max_s, 1)) THEN "cap"
    ELSE IF Lt(table.s_data[Len(table.s_data)], s_val) THEN "exp_s"
    ELSE "unexpected"

\* One pass of the loop of __calculate_A (lines 119-130) for one s_val:
\* the rule used, the value A_val, and whether an exception ends the loop.
CalculateAVal(table, s_val) ==
    LET rule == IF InterpolatorRaises(table, s_val)
                  THEN ExtrapolationRule(table, s_val) ELSE "table"
        A_val == CASE rule = "table" -> Interpolate(table, s_val)
                   [] rule = "inverse_s" -> Reciprocal(s_val)
                   [] rule = "cap" -> Div(Fin(3, 1), ExpT(Fin(max_s, 1)))
                   [] rule = "exp_s" -> Div(Fin(3, 1), ExpT(s_val))
                   [] OTHER -> NaN
    IN [rule |-> rule, A_val |-> A_val,
        error |-> IF rule = "unexpected" THEN "ValueError"
                  ELSE IF IsFin(A_val) /\ A_val.n = 0 THEN "AssertionError"
                  ELSE "none"]

\* __calculate_A(s): the elements in order; the first exception ends the call,
\* so A and the rules are known up to and including the element that raised.
CalculateA(table, s) ==
    LET r == [i \in 1..Len(s) |-> CalculateAVal(table, s[i])]
        bad == {i \in 1..Len(s) : r[i].error # "none"}
        last == IF bad = {} THEN Len(s) ELSE CHOOSE i \in bad : \A j \in bad : i <= j
    IN [A |-> [i \in 1..last |-> r[i].A_val],
        rule |-> [i \in 1..last |-> r[i].rule],
        error |-> IF bad = {} THEN "none" ELSE r[last].error]

\* The values np.random.uniform(0, 1) may return: the half-open interval [0, 1).
UniformSamples == {Fin(0, 1), Fin(1, 4), Fin(1, 2), Fin(3, 4)}

\* A scattering cosine is one of
\*   [k |-> "fin", ...]   a rational (the isotropic branch 2U - 1),
\*   [k |-> "log", X, E]  (1/A) ln(X) with E = exp(A): the inversion formula,
\*   [k |-> "lnU", s, U]  1 + s ln(U): the overflow fallback,
\*   nan.
\* One pass of the loop of __calculate_cos_chi (lines 142-152).
CosChiVal(s_val, A_val, U_val) ==
    IF Gt(s_val, Fin(max_s, 1)) THEN
        \* isotropic: 2 * U_val - 1, never infinite
        Sub(Mul(Fin(2, 1), U_val), Fin(1, 1))
    ELSE IF ~IsFin(A_val) THEN
        \* A nan propagates; A = inf gives 1/A * log(inf) = 0 * inf = nan
        NaN
    ELSE IF SinhOverflows(A_val) THEN
        \* 2 * U * inf is inf for U > 0 and nan for U = 0; log(inf)/A is inf and
        \* is replaced by 1 + s_val * log(U_val); nan is not infinite and stays
        IF U_val.n = 0 THEN NaN
        ELSE [k |-> "lnU", s |-> s_val, U |-> U_val]
    ELSE
        LET E == ExpT(A_val)
            sinh == Div(Sub(E, Div(Fin(1, 1), E)), Fin(2, 1))
            X == Add(Div(Fin(1, 1), E), Mul(Mul(Fin(2, 1), U_val), sinh))
        IN [k |-> "log", X |-> X, E |-> E]

\* The assertion of line 157, -1.0 <= cos_chi_val <= 1.0:
\*   (1/A) ln(X) with A > 0 lies in [-1, 1] exactly when 1/E <= X <= E;
\*   1 + s ln(U) with 0 < U < 1, s >= 0 is at most 1, and at least -1 exactly
\*   when 1/U <= exp(2/s).
CosChiInRange(c) ==
    CASE c.k = "fin" -> Le(Fin(-1, 1), c) /\ Le(c, Fin(1, 1))
      [] c.k = "log" -> Le(Div(Fin(1, 1), c.E), c.X) /\ Le(c.X, c.E)
      [] c.k = "lnU" -> Le(Div(Fin(1, 1), c.U), ExpT(Div(Fin(2, 1), c.s)))
      [] OTHER -> FALSE

\* __calculate_cos_chi(A, s) with the samples U: the assertion of line 137, the
\* loop of lines 141-154, and the range assertions of lines 156-157.
CalculateCosChi(A, s, U) ==
    LET c == [i \in 1..Len(s) |-> CosChiVal(s[i], A[i], U[i])]
    IN [cos_chi |-> c,
        error |-> IF \E i \in 1..Len(A) : IsFin(A[i]) /\ A[i].n = 0
                    THEN "AssertionError"
                  ELSE IF \E i \in 1..Len(s) : ~CosChiInRange(c[i])
                    THEN "AssertionError"
                  ELSE "none"]

\* The values of s the model draws: 0, below the table (one small enough for
\* sinh(1/s) to overflow), at the first sample, inside, at and beyond the last
\* sample, at max_s, above max_s, inf and nan.
ScatterS ==
    { Fin(0, 1), Fin(1, 1000), Fin(1, 2), Fin(1, 1), Fin(2, 1), Fin(4, 1), Fin(5, 1),
      Fin(max_s, 1), Fin(7, 1), Fin(9, 1), Inf, NaN }

ScatterInit ==
    /\ sc_pc = "input"
    /\ sc_table \in ScatterTables
    /\ \E len \in 1..MaxPairs : sc_s \in [1..len -> ScatterS]
    /\ sc_A = <<>> /\ sc_rule = <<>> /\ sc_U = <<>> /\ sc_cos_chi = <<>>
    /\ sc_error = "none"
    /\ OthersIdleScatter

\* A = self.__calculate_A(s) (line 211)
ScatterCalculateA ==
    /\ sc_pc = "input"
    /\ LET r == CalculateA(sc_table, sc_s) IN
         /\ sc_rule' = r.rule
         /\ IF r.error = "none"
              THEN sc_A' = r.A /\ sc_pc' = "A_done" /\ sc_error' = "none"
              ELSE sc_A' = <<>> /\ sc_pc' = "failed" /\ sc_error' = r.error
    /\ UNCHANGED <<sc_table, sc_s, sc_U, sc_cos_chi>>
    /\ UNCHANGED notScatterVars

\* cos_chi = self.__calculate_cos_chi(A, s) (line 214)
ScatterCalculateCosChi ==
    /\ sc_pc = "A_done"
    /\ \E U \in [1..Len(sc_s) -> UniformSamples] :
         LET r == CalculateCosChi(sc_A, sc_s, U) IN
           /\ sc_U' = U
           /\ IF r.error = "none"
                THEN sc_cos_chi' = r.cos_chi /\ sc_pc' = "done" /\ sc_error' = "none"
                ELSE sc_cos_chi' = <<>> /\ sc_pc' = "failed" /\ sc_error' = r.error
    /\ UNCHANGED <<sc_table, sc_s, sc_A, sc_rule>>
    /\ UNCHANGED notScatterVars

ScatterNext ==
    \/ ScatterCalculateA
    \/ ScatterCalculateCosChi

SpecScatter == ScatterInit /\ [][ScatterNext]_vars

(***************************************************************************)
(* Properties of the A(s) lookup and the scattering cosine                 *)
(***************************************************************************)

\* A is a valid anisotropy parameter: finite and positive.
ValidA(A_val) == IsFin(A_val) /\ A_val.n > 0

\* C8: for any uniform sample U and any valid A > 0 the scattering cosine lies
\* in [-1, 1], so the range assertion of __calculate_cos_chi never fails.
C8_CosChiAlwaysInRange ==
    (sc_U # <<>> /\ \A i \in 1..Len(sc_A) : ValidA(sc_A[i])) =>
        /\ sc_error = "none"
        /\ \A i \in 1..Len(sc_cos_chi) : CosChiInRange(sc_cos_chi[i])

\* C9: every s outside the tabulated range gets its A from exactly one
\* extrapolation rule, chosen in the order: below the first sample 1/s, above
\* max_s 3 exp(-max_s), above the last sample (and not above max_s) 3 exp(-s);
\* the "Unexpected behaviour" branch is never taken; and every A of an array
\* that __calculate_A returned is non-zero.
C9_ExtrapolationRules ==
    /\ sc_error # "ValueError"
    /\ \A i \in 1..Len(sc_rule) :
         LET s_val == sc_s[i]
             first == sc_table.s_data[1]
             last == sc_table.s_data[Len(sc_table.s_data)]
         IN /\ sc_rule[i] # "unexpected"
            /\ (Lt(s_val, first) \/ Gt(s_val, last)) =>
                 /\ Lt(s_val, first) =>
                      /\ sc_rule[i] = "inverse_s"
                      /\ i <= Len(sc_A) => sc_A[i] = Reciprocal(s_val)
                 /\ (~Lt(s_val, first) /\ Gt(s_val, Fin(max_s, 1))) =>
                      /\ sc_rule[i] = "cap"
                      /\ i <= Len(sc_A) => sc_A[i] = Div(Fin(3, 1), ExpT(Fin(max_s, 1)))
                 /\ (~Lt(s_val, first) /\ ~Gt(s_val, Fin(max_s, 1))) =>
                      /\ sc_rule[i] = "exp_s"
                      /\ i <= Len(sc_A) => sc_A[i] = Div(Fin(3, 1), ExpT(s_val))
            /\ ~(Lt(s_val, first) \/ Gt(s_val, last)) => sc_rule[i] = "table"
    /\ sc_pc \in {"A_done", "done"} =>
         /\ Len(sc_A) = Len(sc_s)
         /\ \A i \in 1..Len(sc_A) : ~(IsFin(sc_A[i]) /\ sc_A[i].n = 0)

\* __calculate_A returned for an array holding an s above both the last sample
\* and max_s, and an s between the last sample and max_s.
C9_Witness ==
    /\ sc_pc = "A_done"
    /\ \E i, j \in 1..Len(sc_rule) :
         /\ sc_rule[i] = "cap" /\ Gt(sc_s[i], sc_table.s_data[Len(sc_table.s_data)])
         /\ sc_rule[j] = "exp_s"

(***************************************************************************)
(* NanbuCollisionModel: construction                                       *)
(***************************************************************************)

\* ChargedParticle instances: mass m and charge q.
Particles == {[m |-> 1, q |-> 1], [m |-> 2, q |-> -1]}

\* A constructor argument is [type, shape, val]: an np.ndarray of the given
\* shape, an int, a float or a ChargedParticle; val holds the elements.
NdArray(seq) == [type |-> "ndarray", shape |-> <<Len(seq)>>, val |-> seq]
Scalar(type, x) == [type |-> type, shape |-> <<>>, val |-> <<x>>]

DensityArrays(k) == {NdArray(seq) : seq \in [1..k -> 1..MaxDensity]}

ParticleArrays(k) ==
    {NdArray([i \in 1..k |-> IF i = 2 THEN b ELSE a]) : a, b \in Particles}

WeightArrays(k) == {NdArray([i \in 1..k |-> 1])}

\* The argument triples (number_densities, particles, particle_weightings)
\* the model draws: arrays of equal length, arrays of unequal length, a
\* two-dimensional density array, scalars, and mixtures of the two kinds.
NanbuArgTriples ==
    UNION {DensityArrays(k) \X ParticleArrays(k) \X WeightArrays(k) : k \in 0..MaxSpecies}
    \cup (DensityArrays(2) \X ParticleArrays(1) \X WeightArrays(2))
    \cup (DensityArrays(1) \X ParticleArrays(1) \X WeightArrays(2))
    \cup ({[type |-> "ndarray", shape |-> <<1, 1>>, val |-> <<1>>]}
             \X {[type |-> "ndarray", shape |-> <<1, 1>>, val |-> <<[m |-> 1, q |-> 1]>>]}
             \X {[type |-> "ndarray", shape |-> <<1, 1>>, val |-> <<1>>]})
    \cup ({Scalar("int", d) : d \in 1..MaxDensity}
             \X {Scalar("ChargedParticle", p) : p \in Particles}
             \X {Scalar("int", 1)})
    \cup (DensityArrays(1) \X {Scalar("ChargedParticle", [m |-> 1, q |-> 1])} \X WeightArrays(1))
    \cup ({Scalar("int", 2)} \X ParticleArrays(1) \X {Scalar("int", 1)})
    \cup ({Scalar("int", 2)} \X {Scalar("ChargedParticle", [m |-> 1, q |-> 1])} \X WeightArrays(1))
    \cup ({Scalar("float", 2)} \X {Scalar("ChargedParticle", [m |-> 1, q |-> 1])}
             \X {Scalar("int", 1)})

\* The table the constructor loads for a model that is then run.
NanbuTable ==
    [s_data |-> <<Fin(1, 1), Fin(2, 1), Fin(4, 1)>>,
     A_data |-> <<Fin(2, 1), Fin(1, 1), Fin(1, 2)>>]

\* Faulty variant of DensitiesEqual: the comparison with the first density
\* dropped.
DensitiesEqualUnchecked(number_densities) == TRUE

\* Lines 35-36: every density equals the first one.
DensitiesEqual(number_densities) ==
    \A i \in 1..Len(number_densities.val) : number_densities.val[i] = number_densities.val[1]

\* Line 56: more than two species.
TooManySpecies(num_species) == num_species > 2

\* __init__ (lines 30-77): the exception it raises, or "none".  file_present
\* tells whether A_interpolation_values.txt exists at the path of line 63.
ConstructError(args, file_present) ==
    LET nd == args.number_densities
        pa == args.particles
        pw == args.particle_weightings
    IN CASE nd.type = "ndarray" ->
              IF pa.type # "ndarray" \/ pw.type # "ndarray" THEN "AssertionError"
              ELSE IF ~(nd.shape = pa.shape /\ pa.shape = pw.shape) THEN "AssertionError"
              ELSE IF Len(nd.shape) # 1 THEN "AssertionError"
              ELSE IF ~DensitiesEqual(nd) THEN "AssertionError"
              ELSE IF TooManySpecies(nd.shape[1]) THEN "RuntimeError"
              ELSE IF ~file_present THEN "IOError"
              ELSE "none"
         [] nd.type = "int" ->
              IF pa.type # "ChargedParticle" \/ pw.type # "int" THEN "AssertionError"
              ELSE IF TooManySpecies(1) THEN "RuntimeError"
              ELSE IF ~file_present THEN "IOError"
              ELSE "none"
         [] OTHER -> "RuntimeError"

\* The fields of the instance __init__ leaves behind.
ConstructedSelf(args) ==
    [num_species |-> IF args.number_densities.type = "ndarray"
                       THEN args.number_densities.shape[1] ELSE 1,
     particles |-> args.particles.val,
     particle_weights |-> args.particle_weightings.val,
     number_densities |-> args.number_densities.val,
     A_data |-> NanbuTable,
     coulomb_logarithm |-> args.coulomb_logarithm,
     freeze_species_2 |-> args.freeze_species_2]

NanbuInit ==
    /\ nb_pc = "new"
    /\ \E tr \in NanbuArgTriples, fr \in BOOLEAN :
         \* coulomb_logarithm keeps its default: it does not enter s (line 111)
         nb_args = [number_densities |-> tr[1], particles |-> tr[2],
                    particle_weightings |-> tr[3],
                    coulomb_logarithm |-> "None", freeze_species_2 |-> fr]
    /\ true_division \in BOOLEAN
    /\ nb_self = <<>>
    /\ temperature = "unset"
    /\ nb_error = "none"
    /\ rng_stream = <<>>
    /\ rng_pos = -1
    /\ run_args = <<>> /\ returned = <<>>
    /\ velocities = <<>>
    /\ dt = 0 /\ num_steps = 0
    /\ vel_results = <<>> /\ sim_times = <<>>
    /\ idx = 0 /\ t = 0
    /\ indices = <<>> /\ velocities_A = <<>> /\ velocities_B = <<>> /\ half = 0
    /\ step_input = <<>> /\ step_result = <<>> /\ pairs = <<>>
    /\ n_calls = 0
    /\ nb_result = <<>>
    /\ OthersIdleNanbu

\* NanbuCollisionModel(number_densities, particles, particle_weightings, ...)
NanbuConstruct ==
    /\ nb_pc = "new"
    /\ \E file_present \in BOOLEAN :
         LET err == ConstructError(nb_args, file_present) IN
           IF err = "none"
             THEN /\ nb_self' = ConstructedSelf(nb_args)
                  /\ temperature' = "None"
                  /\ nb_pc' = "constructed"
                  /\ nb_error' = "none"
             ELSE /\ nb_self' = <<>>
                  /\ temperature' = temperature
                  /\ nb_pc' = "failed"
                  /\ nb_error' = err
    /\ UNCHANGED <<nb_args, true_division, rng_stream, rng_pos, run_args, returned, velocities,
                   dt, num_steps,
                   vel_results, sim_times, idx, t, indices, velocities_A, velocities_B, half,
                   step_input, step_result, pairs, n_calls, nb_result>>
    /\ UNCHANGED notNanbuVars

(***************************************************************************)
(* NanbuCollisionModel: single_time_step                                   *)
(***************************************************************************)

Min(a, b) == IF a < b THEN a ELSE b

RECURSIVE Sum(_)
Sum(seq) == IF seq = <<>> THEN 0 ELSE seq[1] + Sum(Tail(seq))

VecAdd(a, b) == [i \in 1..3 |-> a[i] + b[i]]
VecSub(a, b) == [i \in 1..3 |-> a[i] - b[i]]

\* f * D for a factor f = <<numerator, denominator>> (the deflections drawn
\* are multiples of the denominator, so the product is exact).
VecScale(f, D) == [i \in 1..3 |-> (f[1] * D[i]) \div f[2]]

\* Lines 187-190 and 195: the split point n, or the exception the slice
\* velocities[:n, :] raises.  An int divided by 2 is a float under true
\* division, and a float is not a valid slice index.
SplitPoint(self, division) ==
    IF self.num_species = 0 THEN [error |-> "IndexError", n |-> 0]
    ELSE IF self.num_species = 1 THEN
        IF division THEN [error |-> "TypeError", n |-> 0]
        ELSE [error |-> "none", n |-> self.number_densities[1] \div 2]
    ELSE [error |-> "none", n |-> self.number_densities[1]]

\* numpy broadcasting of the leading dimensions a and b of two (., 3) arrays:
\* the common row count, or -1 when the shapes do not broadcast.
Broadcast(a, b) ==
    IF a = b THEN a ELSE IF a = 1 THEN b ELSE IF b = 1 THEN a ELSE -1

\* The number of generator outputs np.random.shuffle consumes for len rows.
Draws(len) == IF len > 1 THEN len - 1 ELSE 0

Swap(x, i, j) == [x EXCEPT ![i] = x[j], ![j] = x[i]]

\* The output the generator produces after pos outputs have been consumed.
Raw(stream, pos) == stream[(pos % Len(stream)) + 1]

\* np.random.shuffle(x): for i = len-1 down to 1, swap x[i] with x[j], j drawn
\* from [0, i]; pos counts the generator outputs consumed so far.  (Rows are
\* numbered from 1 here.)
RECURSIVE FisherYates(_, _, _, _)
FisherYates(x, i, stream, pos) ==
    IF i < 1 THEN x
    ELSE FisherYates(Swap(x, i + 1, (Raw(stream, pos) % (i + 1)) + 1), i - 1, stream, pos + 1)

Shuffle(x, stream, pos) == FisherYates(x, Len(x) - 1, stream, pos)

\* Faulty variant of RestoredState: the generator state is not restored.
RestoredStateLost(current_state, consumed) == consumed

\* Line 199, np.random.set_state(current_state): the position in the stream the
\* index shuffles start from, consumed being the position the velocity
\* shuffles left.
RestoredState(current_state, consumed) == current_state

\* indices.argsort() (line 223): position i holds the place of value i.
ArgSort(ind) == [i \in 1..Len(ind) |-> CHOOSE j \in 1..Len(ind) : ind[j] = i]

\* Lines 163-166.
m_A(self) == self.particles[1].m
m_B(self) == IF self.num_species = 1 THEN self.particles[1].m ELSE self.particles[2].m
A_factor(self) == <<m_B(self), m_A(self) + m_B(self)>>

\* Faulty variant of B_factor: the partner's mass in the numerator.
B_factorSwapped(self) == <<m_B(self), m_A(self) + m_B(self)>>

B_factor(self) == <<m_A(self), m_A(self) + m_B(self)>>

\* Faulty variant of FrozenSkipsB: the flag ignored.
FrozenSkipsBNever(self) == FALSE

\* Line 182: species 2 is left alone when the flag is set.
FrozenSkipsB(self) == self.freeze_species_2

\* deflection_vec (line 180), one row per pair, is a function of g, cos_chi
\* and epsilon; the model draws it in units of m_A + m_B: no deflection at
\* all, or a deflection that differs from pair to pair.
UnitDeflections == {<<0, 0, 0>>, <<1, -1, 2>>}
Deflections(self, npairs) ==
    {[k \in 1..npairs |-> [i \in 1..3 |-> (m_A(self) + m_B(self)) * k * e[i]]] :
        e \in UnitDeflections}

\* The values of s drawn for a pair inside a run: below the table, in it, and
\* above max_s.
NanbuS == {Fin(1, 1000), Fin(1, 1), Fin(7, 1)}

\* The arrays s drawn for npairs pairs: one value for the odd pairs and one for
\* the even pairs.
ScatterProfiles(npairs) ==
    {[k \in 1..npairs |-> IF k % 2 = 1 THEN odd ELSE even] : odd, even \in NanbuS}

\* np.random.uniform(0, 1, shape) (line 140): one sample of [0, 1) per
\* element, read from the generator.
Uniform(stream, pos, len) == [k \in 1..len |-> Fin(Raw(stream, pos + k - 1), MaxRaw + 1)]

(***************************************************************************)
(* NanbuCollisionModel: run_sim                                            *)
(***************************************************************************)

\* An Nx3 array whose row i is (i, 2i, 3i); cols = 2 gives an Nx2 array.
Ensemble(N, cols) ==
    [shape |-> <<N, cols>>, rows |-> [i \in 1..N |-> [j \in 1..cols |-> i * j]]]

\* The arrays handed to run_sim: one row per particle, one row too many, and
\* one column short.
VelocityInputs(self) ==
    LET N == Sum(self.number_densities)
    IN {Ensemble(N, 3), Ensemble(N + 1, 3), Ensemble(N, 2)}

\* The time steps handed to run_sim, in units of the smallest one.
TimeSteps == {1, 2}

\* math.ceil(final_time / dt) for final_time >= 0 and dt > 0.
Ceil(final_time, step) == (final_time + step - 1) \div step

\* Faulty variant of NumSteps: the initial sample not counted.
NumStepsWithoutInitial(final_time, step) == Ceil(final_time, step)

\* Line 251.
NumSteps(final_time, step) == Ceil(final_time, step) + 1

\* np.random.seed(1) (line 245) fixes the outputs that follow; the model draws
\* them from the streams of period three that end in 0.
SeededStreams == {<<a, b, 0>> : a, b \in 0..MaxRaw}

\* Lines 241-249: the exception raised before the loop, or "none".
RunSimError(self, vel) ==
    IF vel.shape[1] # Sum(self.number_densities) THEN "AssertionError"
    ELSE IF vel.shape[2] # 3 THEN "AssertionError"
    ELSE IF self.particles = <<>> THEN "IndexError"
    ELSE "none"

\* run_sim(velocities, dt, final_time) up to the loop (lines 241-258).
RunSim ==
    /\ nb_pc = "constructed"
    /\ \E vel \in VelocityInputs(nb_self), step \in TimeSteps, final_time \in 0..MaxFinalTime :
         LET err == RunSimError(nb_self, vel) IN
           /\ run_args' = [velocities |-> vel, dt |-> step, final_time |-> final_time]
           /\ IF err # "none"
                THEN /\ nb_pc' = "failed" /\ nb_error' = err
                     /\ UNCHANGED <<rng_stream, rng_pos, temperature, velocities, dt, num_steps,
                                    vel_results, sim_times, idx, t>>
                ELSE /\ nb_pc' = "loop" /\ nb_error' = "none"
                     /\ rng_stream' \in SeededStreams
                     /\ rng_pos' = 0
                     /\ temperature' = "estimated"
                     /\ velocities' = vel.rows
                     /\ dt' = step
                     /\ num_steps' = NumSteps(final_time, step)
                     /\ vel_results' = [k \in 1..NumSteps(final_time, step) |->
                                          IF k = 1 THEN vel.rows
                                          ELSE [i \in 1..Len(vel.rows) |-> <<0, 0, 0>>]]
                     /\ sim_times' = [k \in 1..NumSteps(final_time, step) |-> 0]
                     /\ idx' = 1
                     /\ t' = 0
    /\ UNCHANGED <<nb_args, true_division, nb_self, returned, indices, velocities_A,
                   velocities_B, half,
                   step_input, step_result, pairs, n_calls, nb_result>>
    /\ UNCHANGED notNanbuVars

\* The loop of lines 259-268 enters a pass: t += dt and the call of
\* single_time_step up to the shuffles (lines 187-201).  Rows carry the tag p,
\* the row they had in the array handed to the call.
StepShuffle ==
    /\ nb_pc = "loop"
    /\ idx < num_steps
    /\ LET N == Len(velocities)
           sp == SplitPoint(nb_self, true_division)
           n == Min(sp.n, N)
           input == [i \in 1..N |-> [p |-> i, v |-> velocities[i]]]
           current_state == rng_pos
           after_A == current_state + Draws(n)
           after_B == after_A + Draws(N - n)
           restored == RestoredState(current_state, after_B)
       IN /\ t' = t + dt
          /\ n_calls' = n_calls + 1
          /\ step_input' = velocities
          /\ IF sp.error # "none"
               THEN /\ nb_pc' = "failed" /\ nb_error' = sp.error
                    /\ UNCHANGED <<rng_pos, indices, velocities_A, velocities_B, half>>
               ELSE /\ nb_pc' = "shuffled" /\ nb_error' = "none"
                    /\ half' = n
                    /\ velocities_A' = Shuffle(SubSeq(input, 1, n), rng_stream, current_state)
                    /\ velocities_B' = Shuffle(SubSeq(input, n + 1, N), rng_stream, after_A)
                    /\ indices' = Shuffle([i \in 1..n |-> i], rng_stream, restored)
                                    \o Shuffle([i \in 1..(N - n) |-> n + i], rng_stream,
                                               restored + Draws(n))
                    /\ rng_pos' = restored + Draws(n) + Draws(N - n)
    /\ UNCHANGED <<nb_args, true_division, nb_self, temperature, rng_stream, run_args, returned,
                   velocities, dt, num_steps, vel_results, sim_times, idx, step_result, pairs,
                   nb_result>>
    /\ UNCHANGED notNanbuVars

\* Lines 203-215: the relative velocities, s, A, cos_chi and epsilon.  s is
\* what __calculate_s returns; U is read from the generator.
StepScatter ==
    /\ nb_pc = "shuffled"
    /\ LET npairs == Broadcast(Len(velocities_A), Len(velocities_B)) IN
         IF npairs < 0
           THEN /\ nb_pc' = "failed" /\ nb_error' = "ValueError"
                /\ UNCHANGED rng_pos
           ELSE \E s \in ScatterProfiles(npairs) :
                \E A \in {CalculateA(nb_self.A_data, s)} :
                \E U \in {Uniform(rng_stream, rng_pos, npairs)} :
                  LET error == IF A.error # "none" THEN A.error
                               ELSE CalculateCosChi(A.A, s, U).error
                  IN IF error # "none"
                       THEN /\ nb_pc' = "failed" /\ nb_error' = error
                            /\ UNCHANGED rng_pos
                       ELSE /\ nb_pc' = "scattered" /\ nb_error' = "none"
                            /\ rng_pos' = rng_pos + 2 * npairs
    /\ UNCHANGED <<nb_args, true_division, nb_self, temperature, rng_stream, run_args, returned,
                   velocities, dt, num_steps, vel_results, sim_times, idx, t, indices, velocities_A,
                   velocities_B, half, step_input, step_result, pairs, n_calls, nb_result>>
    /\ UNCHANGED notNanbuVars

\* Lines 218-229 and 265-268: the post-collision velocities, the unshuffle, the
\* temperature, and the recording of the returned array by run_sim.
StepCollide ==
    /\ nb_pc = "scattered"
    /\ LET a == Len(velocities_A)
           b == Len(velocities_B)
           N == a + b
           npairs == Broadcast(a, b)
           error == IF Broadcast(a, npairs) # a THEN "ValueError"
                    ELSE IF ~FrozenSkipsB(nb_self) /\ Broadcast(b, npairs) # b THEN "ValueError"
                    ELSE "none"
       IN IF error # "none"
            THEN /\ nb_pc' = "failed" /\ nb_error' = error
                 /\ UNCHANGED <<temperature, velocities, vel_results, sim_times, idx,
                                step_result, pairs, returned>>
            ELSE \E D \in Deflections(nb_self, npairs) :
                   LET new_A == [k \in 1..a |->
                                   [velocities_A[k] EXCEPT
                                      !.v = VecSub(@, VecScale(A_factor(nb_self), D[k]))]]
                       new_B == IF FrozenSkipsB(nb_self) THEN velocities_B
                                ELSE [k \in 1..b |->
                                        [velocities_B[k] EXCEPT
                                           !.v = VecAdd(@, VecScale(B_factor(nb_self), D[k]))]]
                       merged == new_A \o new_B
                       order == ArgSort(indices)
                       new_vel == [i \in 1..N |-> merged[order[i]]]
                   IN /\ nb_pc' = "loop" /\ nb_error' = "none"
                      /\ temperature' = "estimated"
                      /\ step_result' = new_vel
                      /\ returned' = Append(returned, [i \in 1..N |-> new_vel[i].v])
                      /\ pairs' = [k \in 1..npairs |->
                                     [pA |-> velocities_A[k].p, pB |-> velocities_B[k].p,
                                      D |-> D[k],
                                      dv_A |-> VecSub(new_A[k].v, velocities_A[k].v),
                                      dv_B |-> VecSub(new_B[k].v, velocities_B[k].v)]]
                      /\ velocities' = [i \in 1..N |-> new_vel[i].v]
                      /\ vel_results' = [vel_results EXCEPT ![idx + 1] =
                                           [i \in 1..N |-> new_vel[i].v]]
                      /\ sim_times' = [sim_times EXCEPT ![idx + 1] = t]
                      /\ idx' = idx + 1
    /\ UNCHANGED <<nb_args, true_division, nb_self, rng_stream, rng_pos, run_args, dt,
                   num_steps, t, indices, velocities_A, velocities_B, half, step_input, n_calls, nb_result>>
    /\ UNCHANGED notNanbuVars

\* Lines 269-271: the loop condition fails and run_sim returns.
RunSimReturn ==
    /\ nb_pc = "loop"
    /\ ~(idx < num_steps)
    /\ nb_pc' = "done"
    /\ nb_result' = <<sim_times, vel_results>>
    /\ UNCHANGED <<nb_args, true_division, nb_self, temperature, nb_error, rng_stream, rng_pos,
                   run_args, returned, velocities, dt, num_steps, vel_results, sim_times, idx, t, indices,
                   velocities_A, velocities_B, half, step_input, step_result, pairs, n_calls>>
    /\ UNCHANGED notNanbuVars

NanbuNext ==
    \/ NanbuConstruct
    \/ RunSim
    \/ StepShuffle
    \/ StepScatter
    \/ StepCollide
    \/ RunSimReturn

SpecNanbu == NanbuInit /\ [][NanbuNext]_vars

(***************************************************************************)
(* NanbuCollisionModel: properties                                         *)
(***************************************************************************)

\* The arguments are arrays of one common one-dimensional shape.
ArrayArguments ==
    /\ nb_args.number_densities.type = "ndarray"
    /\ nb_args.particles.type = "ndarray"
    /\ nb_args.particle_weightings.type = "ndarray"
    /\ Len(nb_args.number_densities.shape) = 1
    /\ nb_args.particles.shape = nb_args.number_densities.shape
    /\ nb_args.particle_weightings.shape = nb_args.number_densities.shape

UnequalDensities ==
    \E i \in 1..Len(nb_args.number_densities.val) :
        nb_args.number_densities.val[i] # nb_args.number_densities.val[1]

\* C5: constructing the model with array arguments fails when some number
\* density differs from the first one (the assertion of line 36) and fails
\* with a RuntimeError when more than two species are supplied with equal
\* densities (line 57); in both cases, and whenever one of the two conditions
\* holds for any array of densities, the constructor raises and leaves no
\* instance behind.
C5_InvalidConfigurationRejected ==
    nb_pc # "new" =>
        /\ (nb_args.number_densities.type = "ndarray"
              /\ (UnequalDensities \/ Len(nb_args.number_densities.val) > 2)) =>
             /\ nb_pc = "failed"
             /\ nb_error \in {"AssertionError", "RuntimeError"}
             /\ nb_self = <<>>
        /\ (ArrayArguments /\ UnequalDensities) => nb_error = "AssertionError"
        /\ (ArrayArguments /\ ~UnequalDensities /\ Len(nb_args.number_densities.val) > 2) =>
             nb_error = "RuntimeError"

\* The constructor was called with two species of unequal densities in
\* well-formed arrays, and raised.
C5_Witness ==
    /\ nb_pc = "failed"
    /\ ArrayArguments
    /\ Len(nb_args.number_densities.val) = 2
    /\ UnequalDensities
    /\ nb_self = <<>>

\* The velocity change the last call gave the particle of input row i.
ChangeOf(i) ==
    IF \E k \in 1..Len(pairs) : pairs[k].pA = i
      THEN pairs[CHOOSE k \in 1..Len(pairs) : pairs[k].pA = i].dv_A
    ELSE IF \E k \in 1..Len(pairs) : pairs[k].pB = i
      THEN pairs[CHOOSE k \in 1..Len(pairs) : pairs[k].pB = i].dv_B
    ELSE <<0, 0, 0>>

\* C6: single_time_step returns the velocities in the original particle
\* order.  After the shuffles every row of each velocity half sits where the
\* index array says it does (both halves were permuted like the matching
\* halves of the index array), and row i of the returned array is the
\* velocity of the particle of input row i, changed by that particle's
\* collision.
C6_ReturnsOriginalOrder ==
    /\ nb_pc \in {"shuffled", "scattered"} =>
         /\ \A k \in 1..Len(velocities_A) : velocities_A[k].p = indices[k]
         /\ \A k \in 1..Len(velocities_B) : velocities_B[k].p = indices[half + k]
    /\ (nb_pc \in {"loop", "done"} /\ n_calls > 0) =>
         /\ Len(step_result) = Len(step_input)
         /\ \A i \in 1..Len(step_result) :
              /\ step_result[i].p = i
              /\ step_result[i].v = VecAdd(step_input[i], ChangeOf(i))

\* A call returned after shuffling the first half by a permutation that is
\* not its own inverse, with a pair that was deflected.
C6_Witness ==
    /\ nb_pc = "loop" /\ n_calls > 0
    /\ Len(indices) >= 3
    /\ indices[1] # 1
    /\ indices[indices[1]] # 1
    /\ \E k \in 1..Len(pairs) : pairs[k].D # <<0, 0, 0>>

CeilOfRun ==
    CHOOSE k \in 0..run_args.final_time :
        /\ k * run_args.dt >= run_args.final_time
        /\ \A j \in 0..(k - 1) : j * run_args.dt < run_args.final_time

\* What a step taken inside the loop of run_sim does to idx and num_steps.
LoopVariant ==
    nb_pc \in {"loop", "shuffled", "scattered"} =>
        /\ num_steps' = num_steps
        /\ idx' \in {idx, idx + 1}
        /\ (nb_pc = "scattered" /\ nb_pc' = "loop") => idx' = idx + 1
        /\ (nb_pc = "loop" /\ nb_pc' = "loop") => UNCHANGED vars

\* C10: a run_sim call that returns has recorded exactly
\* ceil(final_time / dt) + 1 samples: sample 0 is the input at time 0, sample
\* k >= 1 is what the k-th call of single_time_step returned, at time k dt, and
\* single_time_step was called exactly ceil(final_time / dt) times.  The loop
\* terminates: idx starts at 1, never exceeds num_steps, num_steps is fixed
\* while the loop runs, the k-th pass makes the k-th call, and every pass that
\* completes raises idx by exactly one, so that at most num_steps - 1 passes
\* are made.
C10_RecordsCeilPlusOneSamples ==
    /\ [](nb_pc = "done" =>
            /\ nb_result = <<sim_times, vel_results>>
            /\ Len(vel_results) = CeilOfRun + 1
            /\ Len(sim_times) = CeilOfRun + 1
            /\ vel_results[1] = run_args.velocities.rows
            /\ sim_times[1] = 0
            /\ n_calls = CeilOfRun
            /\ Len(returned) = CeilOfRun
            /\ \A k \in 1..CeilOfRun :
                 /\ vel_results[k + 1] = returned[k]
                 /\ sim_times[k + 1] = k * run_args.dt)
    /\ [](nb_pc = "loop" => (idx = n_calls + 1 /\ 1 <= idx /\ idx <= num_steps))
    /\ [](nb_pc \in {"shuffled", "scattered"} => (idx = n_calls /\ idx < num_steps))
    /\ [][LoopVariant]_vars

\* run_sim returned after more than one step, for a final time that is not a
\* multiple of dt.
C10_Witness ==
    /\ nb_pc = "done"
    /\ n_calls >= 2
    /\ run_args.final_time % run_args.dt # 0

\* C11: with freeze_species_2 set, a time step returns every row of the second
\* half equal to the same row of its input, while every row of the first half
\* is the input row changed by -(m_B / (m_A + m_B)) D for its pair's
\* deflection D.
C11_FrozenSpeciesUnchanged ==
    (nb_pc \in {"loop", "done"} /\ n_calls > 0) =>
        (nb_self.freeze_species_2 =>
            /\ \A i \in (half + 1)..Len(step_input) : step_result[i].v = step_input[i]
            /\ \A k \in 1..Len(pairs) :
                 /\ pairs[k].pA <= half
                 /\ step_result[pairs[k].pA].v
                      = VecSub(step_input[pairs[k].pA],
                               VecScale(A_factor(nb_self), pairs[k].D))
                 /\ pairs[k].dv_B = <<0, 0, 0>>)

\* A step with species 2 frozen returned after a pair was deflected: the
\* first-half particle of the pair moved.
C11_Witness ==
    /\ nb_pc = "loop" /\ n_calls > 0
    /\ nb_self.freeze_species_2
    /\ Len(step_input) > half
    /\ \E k \in 1..Len(pairs) :
         /\ pairs[k].D # <<0, 0, 0>>
         /\ step_result[pairs[k].pA].v # step_input[pairs[k].pA]

\* ===========================================================================
\* ReactionRatesCalculator.get_reaction_rates
\* (src/pysrc/theory/reactivities/fusion_reaction_rates.py)
\* ===========================================================================

\* The largest length of the T and rho arrays.
MaxGrid == 3

\* The temperatures and densities the arrays hold.
GridValues == {1, 2}

\* BoschHaleReactivityFit.get_reactivity and ReactionDefinition.number_density
\* are imported from fusion_reactivities, which is not part of the sources;
\* they are described as relations of one temperature, respectively one
\* density.  Two injective elementwise maps stand for them.
Reactivity(temp) == 2 * temp + 1

NumberDensity(density) == density * density

\* An argument of get_reaction_rates: an ndarray with its shape and its data
\* in row-major order, or a plain list.
RateArg(type, shape, data) == [type |-> type, shape |-> shape, data |-> data]

RateArgs ==
    {RateArg("ndarray", <<Len(d)>>, d) : d \in UNION {[1..n -> GridValues] : n \in 1..MaxGrid}}
        \cup {RateArg("list", <<>>, <<1, 2>>), RateArg("ndarray", <<1, 2>>, <<1, 2>>)}

\* Lines 24-26: the exception the defensive checks raise, or "none".  A list
\* has no attribute shape.
RateArgError(T, rho) ==
    IF T.type # "ndarray" THEN "AssertionError"
    ELSE IF Len(T.shape) # 1 THEN "AssertionError"
    ELSE IF rho.type # "ndarray" THEN "AttributeError"
    ELSE IF Len(rho.shape) # 1 THEN "AssertionError"
    ELSE "none"

\* Line 29: np.meshgrid(T, rho, indexing='ij'), as rows of columns.
MeshgridFirst(T, rho) == [i \in 1..Len(T) |-> [j \in 1..Len(rho) |-> T[i]]]

MeshgridSecond(T, rho) == [i \in 1..Len(T) |-> [j \in 1..Len(rho) |-> rho[j]]]

\* Line 33: n_1_n_2 * reactivities, a (p, q) array times a (p,) array.  numpy
\* aligns the trailing dimensions: the vector runs along the columns.
MultiplyGridByVector(grid, vector) ==
    LET p == Len(grid)
        q == Len(grid[1])
        cols == Broadcast(q, Len(vector))
    IN  IF cols = -1 THEN [error |-> "ValueError", value |-> <<>>]
        ELSE [error |-> "none",
              value |-> [i \in 1..p |-> [j \in 1..cols |->
                           grid[i][IF q = 1 THEN 1 ELSE j]
                             * vector[IF Len(vector) = 1 THEN 1 ELSE j]]]]

\* Lines 28-33 for valid arguments.
ReactionRate(T, rho) ==
    LET RHO == MeshgridSecond(T, rho)
        reactivities == [i \in 1..Len(T) |-> Reactivity(T[i])]
        n_1_n_2 == [i \in 1..Len(RHO) |-> [j \in 1..Len(RHO[i]) |-> NumberDensity(RHO[i][j])]]
    IN  MultiplyGridByVector(n_1_n_2, reactivities)

RatesInit ==
    /\ rr_pc = "called"
    /\ rr_T \in RateArgs
    /\ rr_rho \in RateArgs
    /\ rr_TEMP = <<>> /\ rr_RHO = <<>> /\ rr_rate = <<>>
    /\ rr_error = "none"
    /\ OthersIdleRates

\* get_reaction_rates(T, rho) (lines 23-35)
GetReactionRates ==
    /\ rr_pc = "called"
    /\ IF RateArgError(rr_T, rr_rho) # "none"
         THEN /\ rr_error' = RateArgError(rr_T, rr_rho)
              /\ rr_pc' = "failed"
              /\ UNCHANGED <<rr_TEMP, rr_RHO, rr_rate>>
         ELSE \E r \in {ReactionRate(rr_T.data, rr_rho.data)} :
                IF r.error # "none"
                  THEN /\ rr_error' = r.error
                       /\ rr_pc' = "failed"
                       /\ UNCHANGED <<rr_TEMP, rr_RHO, rr_rate>>
                  ELSE /\ rr_TEMP' = MeshgridFirst(rr_T.data, rr_rho.data)
                       /\ rr_RHO' = MeshgridSecond(rr_T.data, rr_rho.data)
                       /\ rr_rate' = r.value
                       /\ rr_pc' = "returned"
                       /\ rr_error' = "none"
    /\ UNCHANGED <<rr_T, rr_rho>>
    /\ UNCHANGED notRatesVars

RatesNext == GetReactionRates

SpecRates == RatesInit /\ [][RatesNext]_vars

\* Whether the arguments are 1-D arrays.
ValidRateArgs ==
    /\ rr_T.type = "ndarray" /\ Len(rr_T.shape) = 1
    /\ rr_rho.type = "ndarray" /\ Len(rr_rho.shape) = 1

\* Whether grid is a p x q array with grid[i][j] = Cell(i, j).
IsGrid(grid, p, q, Cell(_, _)) ==
    /\ Len(grid) = p
    /\ \A i \in 1..p :
         /\ Len(grid[i]) = q
         /\ \A j \in 1..q : grid[i][j] = Cell(i, j)

\* C12: for a 1-D T of length p and a 1-D rho of length q the call returns
\* TEMP, RHO and reaction_rate of shape p x q with TEMP[i,j] = T[i],
\* RHO[i,j] = rho[j] and reaction_rate[i,j] = the pair number density at
\* rho[j] times the reactivity at T[i].
C12_ReactionRateGrid ==
    (rr_pc # "called" /\ ValidRateArgs) =>
        LET T == rr_T.data
            rho == rr_rho.data
            TempCell(i, j) == T[i]
            RhoCell(i, j) == rho[j]
            RateCell(i, j) == NumberDensity(rho[j]) * Reactivity(T[i])
        IN  /\ rr_pc = "returned"
            /\ IsGrid(rr_TEMP, Len(T), Len(rho), TempCell)
            /\ IsGrid(rr_RHO, Len(T), Len(rho), RhoCell)
            /\ IsGrid(rr_rate, Len(T), Len(rho), RateCell)

\* ===========================================================================
\* Binary fractions of any length: the radii of the Newcomb solver.  A number
\* is a sign, an integer part and the bits after the binary point; sums,
\* differences, halves and integer multiples of such numbers are exact, as
\* they are in double precision while the bits fit the mantissa.
\* ===========================================================================

StripZeros(bits) ==
    LET last == CHOOSE k \in 0..Len(bits) :
                    /\ k = 0 \/ bits[k] = 1
                    /\ \A j \in (k + 1)..Len(bits) : bits[j] = 0
    IN  SubSeq(bits, 1, last)

Dy(neg, int, frac) ==
    LET bits == StripZeros(frac)
    IN  [neg |-> neg /\ ~(int = 0 /\ bits = <<>>), int |-> int, frac |-> bits]

DInt(n) == Dy(n < 0, IF n < 0 THEN -n ELSE n, <<>>)

Pad(bits, n) == [k \in 1..n |-> IF k <= Len(bits) THEN bits[k] ELSE 0]

Longest(x, y) == IF Len(x.frac) >= Len(y.frac) THEN Len(x.frac) ELSE Len(y.frac)

\* The carry into bit k of a + b: a lower bit generates one and every bit in
\* between passes it on.
CarryInto(a, b, k) ==
    IF \E j \in (k + 1)..Len(a) :
          /\ a[j] + b[j] = 2
          /\ \A m \in (k + 1)..(j - 1) : a[m] + b[m] = 1
      THEN 1 ELSE 0

AddBits(a, b) ==
    [carry |-> CarryInto(a, b, 0),
     bits |-> [k \in 1..Len(a) |-> (a[k] + b[k] + CarryInto(a, b, k)) % 2]]

\* The borrow from bit k of a - b.
BorrowFrom(a, b, k) ==
    IF \E j \in (k + 1)..Len(a) :
          /\ a[j] < b[j]
          /\ \A m \in (k + 1)..(j - 1) : a[m] = b[m]
      THEN 1 ELSE 0

SubBits(a, b) ==
    [borrow |-> BorrowFrom(a, b, 0),
     bits |-> [k \in 1..Len(a) |-> (a[k] - b[k] - BorrowFrom(a, b, k)) % 2]]

MagLt(x, y) ==
    LET n == Longest(x, y)
        a == Pad(x.frac, n)
        b == Pad(y.frac, n)
    IN  \/ x.int < y.int
        \/ /\ x.int = y.int
           /\ \E k \in 1..n : a[k] < b[k] /\ \A j \in 1..(k - 1) : a[j] = b[j]

MagAdd(x, y, neg) ==
    LET n == Longest(x, y)
        s == AddBits(Pad(x.frac, n), Pad(y.frac, n))
    IN  Dy(neg, x.int + y.int + s.carry, s.bits)

\* |x| - |y| for |x| >= |y|
MagSub(x, y, neg) ==
    LET n == Longest(x, y)
        d == SubBits(Pad(x.frac, n), Pad(y.frac, n))
    IN  Dy(neg, x.int - y.int - d.borrow, d.bits)

DNeg(x) == Dy(~x.neg, x.int, x.frac)

DAbs(x) == Dy(FALSE, x.int, x.frac)

DAdd(x, y) ==
    IF x.neg = y.neg THEN MagAdd(x, y, x.neg)
    ELSE IF MagLt(x, y) THEN MagSub(y, x, y.neg)
    ELSE MagSub(x, y, x.neg)

DSub(x, y) == DAdd(x, DNeg(y))

DLt(x, y) ==
    IF x.neg /\ ~y.neg THEN TRUE
    ELSE IF ~x.neg /\ y.neg THEN FALSE
    ELSE IF x.neg THEN MagLt(y, x)
    ELSE MagLt(x, y)

DLe(x, y) == ~DLt(y, x)

\* 0.5 * x
DHalf(x) == Dy(x.neg, x.int \div 2, <<x.int % 2>> \o x.frac)

DDouble(x) ==
    IF x.frac = <<>> THEN Dy(x.neg, 2 * x.int, <<>>)
    ELSE Dy(x.neg, 2 * x.int + x.frac[1], Tail(x.frac))

\* k * x for a natural number k
RECURSIVE DScale(_, _)
DScale(k, x) ==
    IF k = 0 THEN DInt(0)
    ELSE IF k % 2 = 0 THEN DDouble(DScale(k \div 2, x))
    ELSE DAdd(DDouble(DScale(k \div 2, x)), x)

\* 2^(-e)
DPow2(e) == IF e = 0 THEN DInt(1) ELSE Dy(FALSE, 0, [k \in 1..e |-> IF k = e THEN 1 ELSE 0])

\* n / 2^e for a natural number n
DFrac(n, e) == DScale(n, DPow2(e))

\* np.sign of a binary fraction
DSign(x) == IF x.neg THEN -1 ELSE IF x.int = 0 /\ x.frac = <<>> THEN 0 ELSE 1

DMax(x, y) == IF DLt(x, y) THEN y ELSE x

\* ===========================================================================
\* NewcombSolver (src/pysrc/theory/newcomb_stability/newcomb_solver.py)
\* ===========================================================================

\* The largest number of points of a uniform radial grid.
MaxGridPoints == 3

\* The largest number of find_zero_crossings_in_f calls on one solver.
MaxScans == 2

\* Radial grids starting at r = 0: uniform grids of spacing 1, and a grid
\* whose last cells are about 1e-3 wide (32/2^15 and 34/2^15).
UniformGrid(n) == [k \in 1..n |-> DInt(k - 1)]

CloseGrid ==
    <<DInt(0), DInt(1), DAdd(DInt(1), DFrac(32, 15)), DAdd(DInt(1), DFrac(66, 15))>>

RadialGrids == {UniformGrid(n) : n \in 2..MaxGridPoints} \cup {CloseGrid}

\* A function of the radius, as far as the solver looks at it: a callable with
\* a first sign and the radii where its sign flips (with a zero or a jump
\* there), or an array of samples on the grid.
Callable(first, flips, zero) ==
    [type |-> "callable", first |-> first, flips |-> flips, zero |-> zero, samples |-> <<>>]

SampledArray(samples) ==
    [type |-> "ndarray", first |-> 0, flips |-> {}, zero |-> FALSE, samples |-> samples]

NoFunction == [type |-> "None", first |-> 0, flips |-> {}, zero |-> FALSE, samples |-> <<>>]

\* The positions inside a grid cell where the callables flip sign, as
\* numerator and binary exponent: 5/16 and 1/2 of the cell.
FlipFractions == {<<5, 4>>, <<1, 1>>}

RECURSIVE Halved(_, _)
Halved(x, e) == IF e = 0 THEN x ELSE Halved(DHalf(x), e - 1)

FlipPoint(r, cell, fraction) ==
    DAdd(r[cell], DScale(fraction[1], Halved(DSub(r[cell + 1], r[cell]), fraction[2])))

\* The sets of flip radii with at most one flip per cell of r.
FlipSets(r) ==
    {{FlipPoint(r, c, choice[c]) : c \in {d \in DOMAIN choice : choice[d] # <<0, 0>>}} :
        choice \in [1..(Len(r) - 1) -> FlipFractions \cup {<<0, 0>>}]}

Callables(r) == {Callable(first, flips, zero) : first \in {1, -1}, flips \in FlipSets(r), zero \in BOOLEAN}

SampledArrays(r) == {SampledArray(s) : s \in [1..Len(r) -> {-1, 3}]}

\* np.sign of the function at radius x.  An interp1d of samples is linear
\* between the grid points of r.
SignAt(func, r, x) ==
    IF func.type = "callable" THEN
        IF func.zero /\ x \in func.flips THEN 0
        ELSE IF Cardinality({p \in func.flips : DLe(p, x)}) % 2 = 0 THEN func.first
        ELSE -func.first
    ELSE
        LET c == CHOOSE d \in 1..(Len(r) - 1) : DLe(r[d], x) /\ DLe(x, r[d + 1])
            Times(k, y) == IF k < 0 THEN DNeg(DScale(-k, y)) ELSE DScale(k, y)
        IN  DSign(DAdd(Times(func.samples[c], DSub(r[c + 1], x)),
                       Times(func.samples[c + 1], DSub(x, r[c]))))

\* The arguments of NewcombSolver(m, r, r_max, f, g, a, b, f_deriv=...,
\* singularity_func=..., cross_tol=...).
NewcombArguments(r_type, r, f, g_type, f_deriv, singularity_func, a, b, cross_tol) ==
    [r_type |-> r_type, r |-> r, f |-> f, g_type |-> g_type, f_deriv |-> f_deriv,
     singularity_func |-> singularity_func, a |-> a, b |-> b, cross_tol |-> cross_tol]

\* The values of a and of cross_tol that the bisection can reach.
PlasmaRadii == {DFrac(5, 4), DInt(1), DInt(2)}

CrossTolerances == {DPow2(3), DPow2(10)}

\* Solvers that scan a callable f on the grid r, for every a, b and cross_tol.
ScanArguments(r) ==
    {NewcombArguments("ndarray", r, f, "callable", "None", NoFunction, a, b, tol) :
        f \in Callables(r), a \in PlasmaRadii,
        b \in {r[Len(r)], DAdd(r[Len(r)], DInt(1))}, tol \in CrossTolerances}

\* Solvers whose bisection runs long: cross_tol = 0, which no bisection
\* reaches, and cross_tol = 2^-102 with a sign flip right after r = 0, which
\* the bracket [0, 1] reaches when its half width is 2^-102.
LongBisectionArguments ==
    LET r == UniformGrid(2)
        Arguments(f, tol) ==
            NewcombArguments("ndarray", r, f, "callable", "None", NoFunction, DInt(1), DInt(1), tol)
    IN  {Arguments(f, DInt(0)) : f \in Callables(r)}
            \cup {Arguments(Callable(1, {DPow2(110)}, FALSE), DPow2(102))}

\* The ways of passing r, f, g, f_deriv and singularity_func, on one grid.
ConstructorArguments ==
    LET r == UniformGrid(2)
        start == {r, <<DInt(1), DInt(2)>>}
        fs == {Callable(1, {DPow2(1)}, TRUE)} \cup SampledArrays(r)
        sfs == {NoFunction, Callable(-1, {DPow2(2)}, FALSE)}
    IN  {NewcombArguments(r_type, q, f, g_type, f_deriv, sf, DInt(1), DInt(1), DPow2(3)) :
            r_type \in {"ndarray", "list"}, q \in start, f \in fs,
            g_type \in {"callable", "ndarray"}, f_deriv \in {"None", "callable"}, sf \in sfs}

NewcombArgs ==
    UNION {ScanArguments(r) : r \in RadialGrids} \cup LongBisectionArguments
        \cup ConstructorArguments

\* __init__ (lines 37-60): the exception it raises, or "none".  Line 46 calls
\* the argument f, which raises TypeError for an array.
InitError(args) ==
    IF args.r_type # "ndarray" THEN "AssertionError"
    ELSE IF args.f.type \notin {"ndarray", "callable"} THEN "AssertionError"
    ELSE IF args.g_type \notin {"ndarray", "callable"} THEN "AssertionError"
    ELSE IF args.f_deriv \notin {"None", "callable"} THEN "AssertionError"
    ELSE IF args.r[1] # DInt(0) THEN "AssertionError"
    ELSE IF args.f_deriv = "None" /\ args.f.type # "callable" THEN "TypeError"
    ELSE "none"

\* The fields __init__ sets (lines 42-60).
InitFields(args) ==
    [r |-> args.r,
     f |-> args.f,
     f_deriv |-> IF args.f_deriv = "None" THEN "interp1d(np.gradient)" ELSE "callable",
     singularity_func |-> IF args.singularity_func.type = "None" THEN args.f
                          ELSE args.singularity_func,
     a |-> args.a, b |-> args.b, cross_tol |-> args.cross_tol]

NewcombInit ==
    /\ nc_pc = "args"
    /\ nc_args \in NewcombArgs
    /\ nc_self = <<>> /\ nc_error = "none"
    /\ r_crossings = <<>> /\ nc_scans = 0
    /\ nc_i = 0 /\ sign = "None" /\ r_prev = "None" /\ r_crossing_prev = "None"
    /\ r_crossing = "None" /\ r_min = "None" /\ r_max = "None" /\ iterations = 0
    /\ refined = <<>>
    /\ ds_i = 0 /\ ds_r_min = "None" /\ unstable = FALSE
    /\ segments = <<>> /\ any_negative = FALSE /\ eta_negative = FALSE
    /\ nc_result = "None"
    /\ OthersIdleNewcomb

scanVars == <<nc_i, sign, r_prev, r_crossing_prev, r_crossing, r_min, r_max, iterations, refined>>

stabilityVars == <<ds_i, ds_r_min, unstable, segments, any_negative, eta_negative, nc_result>>

\* NewcombSolver(...) (lines 24-60)
NewcombConstruct ==
    /\ nc_pc = "args"
    /\ IF InitError(nc_args) # "none"
         THEN /\ nc_pc' = "failed"
              /\ nc_error' = InitError(nc_args)
              /\ UNCHANGED nc_self
         ELSE /\ nc_pc' = "constructed"
              /\ nc_self' = InitFields(nc_args)
              /\ UNCHANGED nc_error
    /\ UNCHANGED <<nc_args, r_crossings, nc_scans, scanVars, stabilityVars>>
    /\ UNCHANGED notNewcombVars

\* np.isclose(x, y, atol=1e-3): |x - y| <= atol + rtol * |y| with numpy's
\* default rtol = 1e-5; both sides are multiplied by 1e5 here.
IsClose(x, y) == DLe(DScale(100000, DAbs(DSub(x, y))), DAdd(DInt(100), DAbs(y)))

\* Faulty variant of OutsideTolerance: the loop stops at twice the tolerance.
OutsideToleranceDoubled(crossing, lo, hi, cross_tol) ==
    DLt(DDouble(cross_tol), DMax(DAbs(DSub(crossing, lo)), DAbs(DSub(crossing, hi))))

\* Line 80: the condition of the while loop.
OutsideTolerance(crossing, lo, hi, cross_tol) ==
    DLt(cross_tol, DMax(DAbs(DSub(crossing, lo)), DAbs(DSub(crossing, hi))))

\* Line 81: whether the iteration limit is exceeded.
IterationsExceeded(n) == n > 100

\* Line 93: whether the refined crossing is appended to self.r_crossings.
Recorded(self, crossing, crossing_prev) ==
    DLe(crossing, self.a) /\ ~IsClose(crossing, crossing_prev)

\* find_zero_crossings_in_f(): lines 66-68
FindStart ==
    /\ nc_pc \in {"constructed", "scanned"}
    /\ nc_scans < MaxScans
    /\ nc_pc' = "scan"
    /\ nc_i' = 1
    /\ sign' = "None" /\ r_prev' = "None"
    /\ r_crossing_prev' = DInt(-1)
    /\ refined' = <<>>
    /\ UNCHANGED <<r_crossing, r_min, r_max, iterations>>
    /\ UNCHANGED <<nc_args, nc_self, nc_error, r_crossings, nc_scans, stabilityVars>>
    /\ UNCHANGED notNewcombVars

\* One pass of the for loop up to the while loop (lines 69-79), and to the
\* end of the body (lines 100-101) when the sign has not changed.
ScanPoint ==
    /\ nc_pc = "scan"
    /\ nc_i <= Len(nc_self.r)
    /\ LET r_local == nc_self.r[nc_i]
           f_sign == SignAt(nc_self.singularity_func, nc_self.r, r_local)
           first_sign == IF nc_i = 1 THEN f_sign ELSE sign
       IN  IF first_sign # f_sign
             THEN /\ r_crossing' = DHalf(DAdd(r_prev, r_local))
                  /\ r_min' = r_prev
                  /\ r_max' = r_local
                  /\ iterations' = 0
                  /\ sign' = first_sign
                  /\ nc_pc' = "bisect"
                  /\ UNCHANGED <<nc_i, r_prev>>
             ELSE /\ sign' = f_sign
                  /\ r_prev' = r_local
                  /\ nc_i' = nc_i + 1
                  /\ UNCHANGED <<nc_pc, r_crossing, r_min, r_max, iterations>>
    /\ UNCHANGED <<r_crossing_prev, refined>>
    /\ UNCHANGED <<nc_args, nc_self, nc_error, r_crossings, nc_scans, stabilityVars>>
    /\ UNCHANGED notNewcombVars

\* One pass of the while loop (lines 80-91).
BisectStep ==
    /\ nc_pc = "bisect"
    /\ OutsideTolerance(r_crossing, r_min, r_max, nc_self.cross_tol)
    /\ IF IterationsExceeded(iterations)
         THEN /\ nc_pc' = "failed"
              /\ nc_error' = "RuntimeError"
              /\ UNCHANGED <<r_crossing, r_min, r_max, iterations>>
         ELSE /\ IF SignAt(nc_self.singularity_func, nc_self.r, r_crossing) # sign
                   THEN /\ r_max' = r_crossing
                        /\ r_crossing' = DHalf(DAdd(r_min, r_crossing))
                        /\ UNCHANGED r_min
                   ELSE /\ r_min' = r_crossing
                        /\ r_crossing' = DHalf(DAdd(r_max, r_crossing))
                        /\ UNCHANGED r_max
              /\ iterations' = iterations + 1
              /\ UNCHANGED <<nc_pc, nc_error>>
    /\ UNCHANGED <<nc_i, sign, r_prev, r_crossing_prev, refined>>
    /\ UNCHANGED <<nc_args, nc_self, r_crossings, nc_scans, stabilityVars>>
    /\ UNCHANGED notNewcombVars

\* The while loop ends: lines 93-101.
BisectDone ==
    /\ nc_pc = "bisect"
    /\ ~OutsideTolerance(r_crossing, r_min, r_max, nc_self.cross_tol)
    /\ LET r_local == nc_self.r[nc_i]
           keep == Recorded(nc_self, r_crossing, r_crossing_prev)
       IN  /\ r_crossings' = IF keep THEN Append(r_crossings, r_crossing) ELSE r_crossings
           /\ r_crossing_prev' = IF keep THEN r_crossing ELSE r_crossing_prev
           /\ refined' = Append(refined, [cell |-> nc_i - 1, value |-> r_crossing,
                                          previous |-> r_crossing_prev, recorded |-> keep,
                                          steps |-> iterations])
           /\ sign' = SignAt(nc_self.singularity_func, nc_self.r, r_local)
           /\ r_prev' = r_local
    /\ nc_i' = nc_i + 1
    /\ nc_pc' = "scan"
    /\ UNCHANGED <<r_crossing, r_min, r_max, iterations>>
    /\ UNCHANGED <<nc_args, nc_self, nc_error, nc_scans, stabilityVars>>
    /\ UNCHANGED notNewcombVars

\* The for loop ends: line 103.
ScanEnd ==
    /\ nc_pc = "scan"
    /\ nc_i > Len(nc_self.r)
    /\ r_crossings' = Append(r_crossings, nc_self.r[Len(nc_self.r)])
    /\ nc_scans' = nc_scans + 1
    /\ nc_pc' = "scanned"
    /\ UNCHANGED scanVars
    /\ UNCHANGED <<nc_args, nc_self, nc_error, stabilityVars>>
    /\ UNCHANGED notNewcombVars

\* determine_stability(): lines 139-141
DetermineStart ==
    /\ nc_pc \in {"constructed", "scanned"}
    /\ nc_pc' = "stability"
    /\ ds_r_min' = nc_self.r[1]
    /\ unstable' = FALSE
    /\ ds_i' = 1
    /\ segments' = <<>>
    /\ any_negative' = FALSE
    /\ eta_negative' = FALSE
    /\ UNCHANGED nc_result
    /\ UNCHANGED <<nc_args, nc_self, nc_error, r_crossings, nc_scans, scanVars>>
    /\ UNCHANGED notNewcombVars

\* Faulty variant of Segment: with more than two entries the later segments
\* are integrated inward from the outer end of the grid.
SegmentInwardWhenMany(self, crossings, i, lo) ==
    IF i = 1 \/ Len(crossings) <= 2
      THEN [from |-> DAdd(lo, self.cross_tol), to |-> DSub(crossings[i], self.cross_tol),
            r_start |-> lo]
      ELSE [from |-> self.r[Len(self.r)], to |-> DAdd(crossings[i - 1], self.cross_tol),
            r_start |-> self.r[Len(self.r)]]

\* Lines 143-148: the segment eta is integrated over for entry i of the
\* crossing list: from r_min + cross_tol up to the crossing, or, for the second
\* of two entries, from r_max down to the first crossing.
Segment(self, crossings, i, lo) ==
    IF i = 1 \/ Len(crossings) > 2
      THEN [from |-> DAdd(lo, self.cross_tol), to |-> DSub(crossings[i], self.cross_tol),
            r_start |-> lo]
      ELSE [from |-> self.r[Len(self.r)], to |-> DAdd(crossings[i - 1], self.cross_tol),
            r_start |-> self.r[Len(self.r)]]

\* Faulty variant of Unstable: the flag follows the last segment.
UnstableLastOnly(flag, negative) == negative

\* Lines 150-151: the flag after a segment whose eta is, or is not, negative
\* at some sample.
Unstable(flag, negative) == IF negative THEN TRUE ELSE flag

\* One pass of the loop of determine_stability (lines 142-167).  What odeint
\* returns for the segment is an input: eta is negative at some sample or not.
StabilitySegment ==
    /\ nc_pc = "stability"
    /\ ds_i <= Len(r_crossings)
    /\ \E negative \in BOOLEAN :
         /\ unstable' = Unstable(unstable, negative)
         /\ any_negative' = (any_negative \/ negative)
         /\ eta_negative' = negative
    /\ segments' = Append(segments, [entry |-> ds_i,
                                     segment |-> Segment(nc_self, r_crossings, ds_i, ds_r_min)])
    /\ ds_r_min' = DAdd(r_crossings[ds_i], nc_self.cross_tol)
    /\ ds_i' = ds_i + 1
    /\ UNCHANGED <<nc_pc, nc_result>>
    /\ UNCHANGED <<nc_args, nc_self, nc_error, r_crossings, nc_scans, scanVars>>
    /\ UNCHANGED notNewcombVars

\* Line 169
DetermineReturn ==
    /\ nc_pc = "stability"
    /\ ds_i > Len(r_crossings)
    /\ nc_result' = unstable
    /\ nc_pc' = "returned"
    /\ UNCHANGED <<ds_i, ds_r_min, unstable, segments, any_negative, eta_negative>>
    /\ UNCHANGED <<nc_args, nc_self, nc_error, r_crossings, nc_scans, scanVars>>
    /\ UNCHANGED notNewcombVars

NewcombNext ==
    \/ NewcombConstruct
    \/ FindStart
    \/ ScanPoint
    \/ BisectStep
    \/ BisectDone
    \/ ScanEnd
    \/ DetermineStart
    \/ StabilitySegment
    \/ DetermineReturn

SpecNewcomb == NewcombInit /\ [][NewcombNext]_vars

\* The crossings the current scan has recorded, in the order of recording.
ScanCrossings ==
    LET kept == SelectSeq(refined, LAMBDA e : e.recorded)
    IN  [k \in 1..Len(kept) |-> kept[k].value]

\* Whether the singularity function changes sign once, at a radius r0 <= a.
SingleSignChange ==
    /\ nc_self.singularity_func.type = "callable"
    /\ Cardinality(nc_self.singularity_func.flips) = 1
    /\ \A r0 \in nc_self.singularity_func.flips : DLe(r0, nc_self.a)

\* C13: for a singularity function with a single sign change at r0 strictly
\* between two grid points and r0 <= a, find_zero_crossings_in_f records a
\* crossing within cross_tol of r0.
C13_SignChangeRecordedWithinTolerance ==
    (nc_pc = "scanned" /\ SingleSignChange) =>
        \A r0 \in nc_self.singularity_func.flips :
            \E k \in 1..Len(ScanCrossings) :
                DLe(DAbs(DSub(ScanCrossings[k], r0)), nc_self.cross_tol)

\* The sign change of a singularity function that has one.
SignChange == CHOOSE r0 \in nc_self.singularity_func.flips : TRUE

\* C13, amended: for a single sign change at r0 strictly between two grid
\* points with r0 + cross_tol <= a, a scan that returns has recorded a crossing
\* within cross_tol of r0; the bracket of the bisection always contains r0, its
\* width is the cell width halved once per iteration, and r_crossing is its
\* midpoint.
C13_SignChangeBelowARecorded ==
    /\ (nc_pc = "scanned" /\ SingleSignChange
            /\ DLe(DAdd(SignChange, nc_self.cross_tol), nc_self.a)) =>
           \E k \in 1..Len(ScanCrossings) :
               DLe(DAbs(DSub(ScanCrossings[k], SignChange)), nc_self.cross_tol)
    /\ (nc_pc = "bisect" /\ SingleSignChange) =>
           /\ DLt(r_min, SignChange) /\ DLe(SignChange, r_max)
           /\ r_crossing = DHalf(DAdd(r_min, r_max))
           /\ DSub(r_max, r_min)
                = Halved(DSub(nc_self.r[nc_i], nc_self.r[nc_i - 1]), iterations)

C13_Witness ==
    /\ nc_pc = "scanned" /\ SingleSignChange
    /\ DLe(DAdd(SignChange, nc_self.cross_tol), nc_self.a)
    /\ Len(refined) = 1 /\ refined[1].recorded /\ refined[1].steps >= 2
    /\ refined[1].value # SignChange

\* C14: the bisection performs at most 100 steps for one crossing; the
\* iteration-exceeded error comes instead of a 101st step.
C14_AtMostHundredSteps ==
    (nc_pc \in {"bisect", "failed"} /\ nc_self # <<>>) => iterations <= 100

\* |x - y| <= 1e-3
WithinThousandth(x, y) == DLe(DScale(1000, DAbs(DSub(x, y))), DInt(1))

\* C15: a refined crossing is recorded if and only if it is at or below a and
\* not within 1e-3 of the previously recorded crossing; the recorded crossings
\* of a scan are strictly increasing, each <= a, and consecutive ones differ
\* by more than 1e-3.
C15_RecordedCrossings ==
    (nc_pc \in {"scan", "bisect", "scanned"}) =>
        /\ \A k \in 1..Len(refined) :
             refined[k].recorded <=>
                 /\ DLe(refined[k].value, nc_self.a)
                 /\ ~WithinThousandth(refined[k].value, refined[k].previous)
        /\ \A k \in 1..Len(ScanCrossings) : DLe(ScanCrossings[k], nc_self.a)
        /\ \A k \in 1..(Len(ScanCrossings) - 1) :
             /\ DLt(ScanCrossings[k], ScanCrossings[k + 1])
             /\ ~WithinThousandth(ScanCrossings[k + 1], ScanCrossings[k])

\* C16: after find_zero_crossings_in_f returns, the last element of the
\* crossing list is the outer boundary radius b, appended once per scan.
C16_LastCrossingIsOuterBoundary ==
    (nc_pc = "scanned") =>
        /\ r_crossings[Len(r_crossings)] = nc_self.b
        /\ (nc_scans = 1 => Len(r_crossings) = Len(ScanCrossings) + 1)

\* Once unstable, determine_stability stays unstable.
StaysUnstable == (nc_pc = "stability" /\ unstable) => unstable'

\* Each pass of the loop processes the next entry of the crossing list.
NextEntry ==
    (nc_pc = "stability" /\ ds_i' # ds_i) =>
        /\ ds_i' = ds_i + 1
        /\ Len(segments') = ds_i
        /\ segments'[ds_i].entry = ds_i

\* C17: determine_stability returns True if and only if eta is negative at
\* some sample of the segment of at least one entry of the crossing list; once
\* a segment is unstable the result stays True; every entry is processed once,
\* in list order.
C17_UnstableIffSomeSegmentNegative ==
    /\ [](nc_pc = "returned" =>
            /\ nc_result = any_negative
            /\ Len(segments) = Len(r_crossings)
            /\ \A k \in 1..Len(segments) : segments[k].entry = k)
    /\ [][StaysUnstable]_vars
    /\ [][NextEntry]_vars

C17_Witness ==
    /\ nc_pc = "returned"
    /\ nc_result = TRUE
    /\ ~eta_negative
    /\ Len(segments) >= 3

\* C18: constructing the solver with f as an array of samples (as long as r)
\* and no f_deriv succeeds and stores the interpolated numerical derivative.
C18_SampledFWithoutDerivative ==
    (/\ nc_pc # "args"
     /\ nc_args.r_type = "ndarray" /\ nc_args.r[1] = DInt(0)
     /\ nc_args.f.type = "ndarray" /\ nc_args.f_deriv = "None") =>
        /\ nc_pc # "failed"
        /\ nc_self # <<>>
        /\ nc_self.f_deriv = "interp1d(np.gradient)"

\* ===========================================================================
\* The trajectory drivers: run_simulation
\* (src/sim_campaigns/electron_cusp_confinement/run_sim.py) and the two run_sim
\* functions (004-velocity-distributions/generate_velocity_distributions.py,
\* 006-uniform_e_field/run_uniform_e_field_sims.py).  The three loops are the
\* same statement for statement; they differ in the fields given to the pusher.
\* ===========================================================================

\* The largest num_steps = int(final_time / dt).
MaxSteps == 4

TrajectoryDrivers == {"run_simulation", "run_sim_004", "run_sim_006"}

\* What boris_solver returns for a step is an input: a position inside the
\* domain (a coordinate equal to +-domain_size is inside) or outside it in one
\* or more coordinates, and a velocity.
DomainSizes == {2}

PushedStates ==
    {[x |-> x, v |-> <<1, 0, -1>>] :
        x \in {<<0, 0, 0>>, <<2, -2, 1>>, <<3, 0, 0>>, <<0, -3, 0>>, <<1, 3, -3>>}}

\* The particles run_parallel_sims creates start inside the domain.
InitialStates == {[x |-> <<1, 0, 0>>, v |-> <<0, 1, 0>>]}

ZeroVector == <<0, 0, 0>>

\* Line 56: np.any(x[0, :] < -domain_size) or np.any(x[0, :] > domain_size)
OutsideDomain(x, size) == \E c \in 1..3 : x[c] < -size \/ x[c] > size

\* Line 112: the last element of the returned tuple is None.
ReturnedNone == [none |-> TRUE, index |-> 0]

\* Faulty variant of EscapeIndex: the index of the escaping step itself.
EscapeIndexOfStep(i) == [none |-> FALSE, index |-> i]

\* Line 82: the last element of the tuple returned when step i escapes.
EscapeIndex(i) == [none |-> FALSE, index |-> i - 1]

TrajectoryInit ==
    /\ tr_pc = "called"
    /\ driver \in TrajectoryDrivers
    /\ domain_size \in DomainSizes
    /\ tr_num_steps \in 1..MaxSteps
    /\ tr_i = 0
    /\ \E p \in InitialStates : tr_X = p.x /\ tr_V = p.v
    /\ positions = <<>> /\ tr_velocities = <<>>
    /\ pushed = <<>> /\ tr_result = ReturnedNone
    /\ OthersIdleTrajectory

\* Lines 40-43: the arrays of zeros, one sample per time.
RunSimulationAllocate ==
    /\ tr_pc = "called"
    /\ positions' = [k \in 1..tr_num_steps |-> ZeroVector]
    /\ tr_velocities' = [k \in 1..tr_num_steps |-> ZeroVector]
    /\ tr_i' = 0
    /\ tr_pc' = "loop"
    /\ UNCHANGED <<driver, domain_size, tr_num_steps, tr_X, tr_V, pushed, tr_result>>
    /\ UNCHANGED notTrajectoryVars

\* The pass of the for loop for i = 0 (lines 47-50).  (Sample i is element
\* i + 1 of positions here.)
RunSimulationFirstSample ==
    /\ tr_pc = "loop"
    /\ tr_i < tr_num_steps
    /\ tr_i = 0
    /\ positions' = [positions EXCEPT ![1] = tr_X]
    /\ tr_velocities' = [tr_velocities EXCEPT ![1] = tr_V]
    /\ tr_i' = 1
    /\ UNCHANGED <<tr_pc, driver, domain_size, tr_num_steps, tr_X, tr_V, pushed, tr_result>>
    /\ UNCHANGED notTrajectoryVars

\* A pass of the for loop for i >= 1 (lines 52-87).
RunSimulationStep ==
    /\ tr_pc = "loop"
    /\ tr_i < tr_num_steps
    /\ tr_i >= 1
    /\ \E p \in PushedStates :
         /\ pushed' = Append(pushed, p.x)
         /\ IF OutsideDomain(p.x, domain_size)
              THEN /\ tr_result' = EscapeIndex(tr_i)
                   /\ tr_pc' = "returned"
                   /\ UNCHANGED <<positions, tr_velocities, tr_X, tr_V, tr_i>>
              ELSE /\ positions' = [positions EXCEPT ![tr_i + 1] = p.x]
                   /\ tr_velocities' = [tr_velocities EXCEPT ![tr_i + 1] = p.v]
                   /\ tr_X' = p.x
                   /\ tr_V' = p.v
                   /\ tr_i' = tr_i + 1
                   /\ UNCHANGED <<tr_pc, tr_result>>
    /\ UNCHANGED <<driver, domain_size, tr_num_steps>>
    /\ UNCHANGED notTrajectoryVars

\* The for loop ends (line 112).
RunSimulationReturn ==
    /\ tr_pc = "loop"
    /\ tr_i >= tr_num_steps
    /\ tr_result' = ReturnedNone
    /\ tr_pc' = "returned"
    /\ UNCHANGED <<driver, domain_size, tr_num_steps, tr_i, tr_X, tr_V, positions, tr_velocities, pushed>>
    /\ UNCHANGED notTrajectoryVars

TrajectoryNext ==
    \/ RunSimulationAllocate
    \/ RunSimulationFirstSample
    \/ RunSimulationStep
    \/ RunSimulationReturn

SpecTrajectory == TrajectoryInit /\ [][TrajectoryNext]_vars

\* The first pusher step whose position is outside the domain, 0 if none.
FirstEscape ==
    IF \E k \in 1..Len(pushed) : OutsideDomain(pushed[k], domain_size)
      THEN CHOOSE k \in 1..Len(pushed) :
               /\ OutsideDomain(pushed[k], domain_size)
               /\ \A j \in 1..(k - 1) : ~OutsideDomain(pushed[j], domain_size)
      ELSE 0

\* Pusher steps are only made while the driver runs.
NoStepAfterReturn == (tr_pc = "returned") => (pushed' = pushed /\ tr_pc' = "returned")

\* C19: the driver stops at the first step i >= 1 whose pushed position is
\* outside the domain: it makes no further pusher step, returns i - 1, and
\* leaves samples i and later unrecorded; the samples before i are the initial
\* state and the pushed positions; if no step leaves the domain it makes one
\* pusher step for every index 1 .. num_steps - 1 and returns None.
C19_StopsAtFirstEscape ==
    /\ [](tr_pc = "returned" =>
            IF FirstEscape # 0
              THEN /\ Len(pushed) = FirstEscape
                   /\ tr_result = [none |-> FALSE, index |-> FirstEscape - 1]
                   /\ \A k \in (FirstEscape + 1)..tr_num_steps : positions[k] = ZeroVector
                   /\ \A k \in 2..FirstEscape : positions[k] = pushed[k - 1]
                   /\ ~OutsideDomain(positions[tr_result.index + 1], domain_size)
              ELSE /\ Len(pushed) = tr_num_steps - 1
                   /\ tr_result.none
                   /\ \A k \in 2..tr_num_steps : positions[k] = pushed[k - 1])
    /\ [][NoStepAfterReturn]_vars

C19_Witness ==
    /\ tr_pc = "returned"
    /\ FirstEscape = 3
    /\ tr_result = [none |-> FALSE, index |-> 2]
    /\ tr_num_steps > 3

\* ===========================================================================
\* The batch runners: run_parallel_sims and the sweep that hands it to a
\* process pool (get_radial_distributions) in
\* src/sim_campaigns/electron_cusp_confinement/run_sim.py,
\* 004-velocity-distributions/generate_velocity_distributions.py and
\* 006-uniform_e_field/run_uniform_e_field_sims.py.
\* ===========================================================================

\* How many values of each sweep list, and how many batch numbers, are kept.
MaxSweep == 2

BatchScripts == {"run_sim", "004", "006"}

RECURSIVE Concat(_)
Concat(lists) == IF lists = <<>> THEN <<>> ELSE Head(lists) \o Concat(Tail(lists))

Take(list, n) == SubSeq(list, 1, Min(n, Len(list)))

\* A float literal written as mant * 10^exp (1e12 is Sci(1, 12)).
Sci(mant, exp) == [mant |-> mant, exp |-> exp]

RECURSIVE NumDigits(_)
NumDigits(m) == IF m < 10 THEN 1 ELSE 1 + NumDigits(m \div 10)

RECURSIVE Pow10(_)
Pow10(k) == IF k = 0 THEN 1 ELSE 10 * Pow10(k - 1)

RoundHalfEven(a, b) ==
    LET q == a \div b
        r == a % b
    IN  IF 2 * r < b THEN q
        ELSE IF 2 * r > b THEN q + 1
        ELSE IF q % 2 = 0 THEN q ELSE q + 1

TwoDigits(e) == IF e < 10 THEN "0" \o ToString(e) ELSE ToString(e)

\* "{}".format(x) of a float x with an integral value below 1e16: the digits
\* of the value followed by ".0".
FormatFloat(x) == ToString(x) \o ".0"

\* "{:.2E}".format(n): three significant digits, rounded, and a two-digit
\* exponent; values that agree in their first three digits get the same text.
Format2E(n) ==
    IF n.mant = 0 THEN "0.00E+00"
    ELSE LET k == NumDigits(n.mant)
             raw == IF k <= 3 THEN n.mant * Pow10(3 - k)
                              ELSE RoundHalfEven(n.mant, Pow10(k - 3))
             m3 == IF raw = 1000 THEN 100 ELSE raw
             e == n.exp + k - 1 + (IF raw = 1000 THEN 1 ELSE 0)
         IN  ToString(m3 \div 100) \o "." \o ToString((m3 \div 10) % 10) \o ToString(m3 % 10)
               \o "E" \o (IF e < 0 THEN "-" ELSE "+") \o TwoDigits(Abs(e))

\* I * to_kA with to_kA = 1e-3; the currents of the sweeps are multiples of
\* 1000, for which the product is the quotient.
ToKA(current) == current \div 1000

WorkUnit(radius, electron_energy, current, n, batch_num, get_final_state, get_histograms) ==
    [radius |-> radius, electron_energy |-> electron_energy, I |-> current, n |-> n,
     batch_num |-> batch_num, get_final_state |-> get_final_state,
     get_histograms |-> get_histograms]

\* 004, lines 201-206.
BatchNumbers004(electron_energy) ==
    IF electron_energy <= 10 THEN 2 ELSE IF electron_energy <= 100 THEN 4 ELSE 1

\* 004, get_radial_distributions: the list args.
Sweep004 ==
    LET radii == Take(<<1>>, MaxSweep)
        electron_energies == Take(<<1000>>, MaxSweep)
        currents == Take(<<10000>>, MaxSweep)
    IN  Concat([a \in DOMAIN radii |->
          Concat([b \in DOMAIN currents |->
            Concat([c \in DOMAIN electron_energies |->
              [batch_num \in 1..Min(BatchNumbers004(electron_energies[c]), MaxSweep) |->
                 WorkUnit(radii[a], electron_energies[c], currents[b], Sci(0, 0),
                          (batch_num - 1) + 1, TRUE, TRUE)]])])])

\* 006, get_radial_distributions: the list args.
Sweep006 ==
    LET radii == Take(<<1, 5, 10>>, MaxSweep)
        electron_energies == Take(<<10, 100>>, MaxSweep)
        currents == Take(<<10000, 100000>>, MaxSweep)
        number_densities ==
            Take(<<Sci(0, 0), Sci(1, 3), Sci(1, 6), Sci(1, 9), Sci(1, 12)>>, MaxSweep)
    IN  Concat([a \in DOMAIN radii |->
          Concat([b \in DOMAIN currents |->
            Concat([c \in DOMAIN electron_energies |->
              Concat([d \in DOMAIN number_densities |->
                [batch_num \in 1..Min(3, MaxSweep) |->
                   WorkUnit(radii[a], electron_energies[c], currents[b], number_densities[d],
                            (batch_num - 1) + 1, TRUE, TRUE)]])])])])

\* run_sim.py has no sweep of its own: a sweep of the campaign over radius,
\* current, electron energy and batch number, run with one setting of the two
\* output flags.
SweepRunSim(get_final_state, get_histograms) ==
    LET radii == Take(<<1, 5, 10>>, MaxSweep)
        electron_energies == Take(<<10, 100>>, MaxSweep)
        currents == Take(<<10000, 100000>>, MaxSweep)
    IN  Concat([a \in DOMAIN radii |->
          Concat([b \in DOMAIN currents |->
            Concat([c \in DOMAIN electron_energies |->
              [batch_num \in 1..Min(3, MaxSweep) |->
                 WorkUnit(radii[a], electron_energies[c], currents[b], Sci(0, 0),
                          batch_num, get_final_state, get_histograms)]])])])

\* The sweeps a script can hand to its pool.
Sweeps(s) ==
    IF s = "004" THEN {Sweep004}
    ELSE IF s = "006" THEN {Sweep006}
    ELSE {SweepRunSim(TRUE, TRUE), SweepRunSim(TRUE, FALSE), SweepRunSim(FALSE, TRUE)}

\* The units of a list args that a run of the pool is followed for: any two of
\* them, in their order in args (the one unit of a list of one).  The other
\* units of args run before, between and after them.
UnitsFollowed(sweep) ==
    IF Len(sweep) = 1 THEN {<<1>>}
    ELSE UNION {{<<i, j>> : j \in (i + 1)..Len(sweep)} : i \in 1..Len(sweep)}

\* mp.Pool(processes=1) in 004, mp.Pool(processes=4) in 006.
Processes(s) == IF s = "004" THEN 1 ELSE 4

\* The processes of the pool that are followed: two of a larger pool, p1 the
\* one that takes the first followed unit.
PoolProcesses(s) == IF Processes(s) = 1 THEN {"p1"} ELSE {"p1", "p2"}

\* pool.map without a chunksize: divmod(len(args), 4 * processes), one more if
\* there is a remainder.
Chunksize(length, processes) ==
    IF length % (4 * processes) = 0
      THEN length \div (4 * processes)
      ELSE (length \div (4 * processes)) + 1

\* The chunk of the unit at place index of args, and its place in the chunk.
Task(index, length, processes) ==
    [chunk |-> ((index - 1) \div Chunksize(length, processes)) + 1,
     offset |-> ((index - 1) % Chunksize(length, processes)) + 1]

ResDir(s) == IF s = "run_sim" THEN "results_small_initialisation" ELSE "results"

RadiusDir(s, u) == ResDir(s) \o "/radius-" \o FormatFloat(u.radius) \o "m"

OutputDir(s, u) == RadiusDir(s, u) \o "/current-" \o FormatFloat(ToKA(u.I)) \o "kA"

\* The directories run_parallel_sims makes sure exist, in the order of its
\* three tests.
DirLevels(s, u) == <<ResDir(s), RadiusDir(s, u), OutputDir(s, u)>>

\* "current-{}-radius-{}-energy-{}-batch-{}" (run_sim.py and 004).
ParameterName(u) ==
    "current-" \o FormatFloat(u.I) \o "-radius-" \o FormatFloat(u.radius)
      \o "-energy-" \o FormatFloat(u.electron_energy) \o "-batch-" \o ToString(u.batch_num)

\* Faulty variant of ProcessName: the batch number is left out.
ProcessNameWithoutBatch(u) ==
    "current-" \o FormatFloat(u.I) \o "-radius-" \o FormatFloat(u.radius)
      \o "-energy-" \o FormatFloat(u.electron_energy) \o "-n-" \o Format2E(u.n)

\* 006, line 112: process_name.
ProcessName(u) ==
    "current-" \o FormatFloat(u.I) \o "-radius-" \o FormatFloat(u.radius)
      \o "-energy-" \o FormatFloat(u.electron_energy) \o "-n-" \o Format2E(u.n)
      \o "-batch-" \o ToString(u.batch_num)

\* The paths a unit writes, in the order of its np.savetxt calls.
OutputPaths(s, u) ==
    IF s = "004"
      THEN <<OutputDir(s, u) \o "/radial_distribution-" \o ParameterName(u) \o ".txt",
             OutputDir(s, u) \o "/velocity_distribution-" \o ParameterName(u) \o ".txt",
             OutputDir(s, u) \o "/final_state-" \o ParameterName(u) \o ".txt">>
    ELSE IF s = "006"
      THEN <<OutputDir(s, u) \o "/radial_distribution-" \o ProcessName(u) \o ".txt",
             OutputDir(s, u) \o "/velocity_distribution-" \o ProcessName(u) \o "_x.txt",
             OutputDir(s, u) \o "/velocity_distribution-" \o ProcessName(u) \o "_y.txt",
             OutputDir(s, u) \o "/velocity_distribution-" \o ProcessName(u) \o "_z.txt",
             OutputDir(s, u) \o "/final_state-current-" \o ProcessName(u) \o ".txt">>
    ELSE (IF u.get_histograms
            THEN <<OutputDir(s, u) \o "/radial_distribution-" \o ParameterName(u) \o ".txt",
                   OutputDir(s, u) \o "/velocity_distribution-" \o ParameterName(u) \o "_x.txt",
                   OutputDir(s, u) \o "/velocity_distribution-" \o ParameterName(u) \o "_y.txt",
                   OutputDir(s, u) \o "/velocity_distribution-" \o ParameterName(u) \o "_z.txt">>
            ELSE <<>>)
         \o (IF u.get_final_state
               THEN <<OutputDir(s, u) \o "/final_state-" \o ParameterName(u) \o ".txt">>
               ELSE <<>>)

IdleProcess == [pc |-> "idle", unit |-> 0, written |-> 0, level |-> 0]

\* A process entering run_parallel_sims for followed unit k.
Entering(k) == [pc |-> "test", unit |-> k, written |-> 0, level |-> 1]

\* get_radial_distributions up to pool.map: the pool and the list args, cut
\* into chunks, in a working directory without result directories.
BatchInit ==
    /\ script \in BatchScripts
    /\ \E sweep \in Sweeps(script) :
         \E followed \in UnitsFollowed(sweep) :
           /\ pool_args = [k \in DOMAIN followed |-> sweep[followed[k]]]
           /\ tasks = [k \in DOMAIN followed |->
                         Task(followed[k], Len(sweep), Processes(script))]
           /\ num_chunks = Task(Len(sweep), Len(sweep), Processes(script)).chunk
    /\ dirs = {}
    /\ dispatched = 0
    /\ workers = [w \in PoolProcesses(script) |-> IdleProcess]
    /\ files = <<>>
    /\ failed = {}
    /\ skipped = {}
    /\ completed = {}
    /\ OthersIdleBatch

\* Whether followed unit k is in the chunk of the followed unit before it.
SameChunk(k) == k > 1 /\ k <= Len(tasks) /\ tasks[k].chunk = tasks[k - 1].chunk

\* Whether unit k is the first unit a process of the pool runs: the first unit
\* of one of the chunks the processes start with.
FirstRun(k) == tasks[k].offset = 1 /\ tasks[k].chunk <= Processes(script)

\* The directories an earlier unit of args has left when unit k starts: every
\* unit but a first one starts after a unit that went through the test of
\* res_dir.
LeftByEarlierUnits(k) == IF FirstRun(k) THEN {} ELSE {ResDir(script)}

\* pool.map: a free process takes the chunk of the next followed unit and
\* comes to that unit.
PoolDispatch(w) ==
    /\ workers[w].pc = "idle"
    /\ dispatched = 0 => w = "p1"
    /\ dispatched < Len(pool_args)
    /\ ~SameChunk(dispatched + 1)
    /\ dispatched' = dispatched + 1
    /\ workers' = [workers EXCEPT ![w] = Entering(dispatched + 1)]
    /\ dirs' = dirs \cup LeftByEarlierUnits(dispatched + 1)
    /\ UNCHANGED <<script, pool_args, tasks, num_chunks, files, failed, skipped, completed>>
    /\ UNCHANGED notBatchVars

\* The directory of the level a process is at.
DirOf(p) == DirLevels(script, pool_args[p.unit])[p.level]

\* The process after the directory of its level is there.
NextLevel(p) ==
    IF p.level = 3 THEN [p EXCEPT !.pc = "write"]
                   ELSE [p EXCEPT !.pc = "test", !.level = @ + 1]

\* run_parallel_sims: if not os.path.exists(...), for one of the three levels.
TestDir(w) ==
    /\ workers[w].pc = "test"
    /\ workers' = [workers EXCEPT ![w] =
                     IF DirOf(workers[w]) \in dirs THEN NextLevel(workers[w])
                                                   ELSE [workers[w] EXCEPT !.pc = "make"]]
    /\ UNCHANGED <<script, pool_args, tasks, num_chunks, dispatched, dirs, files, failed,
                   skipped, completed>>
    /\ UNCHANGED notBatchVars

\* run_parallel_sims: os.makedirs(...) of a directory that is still missing.
MakeDir(w) ==
    /\ workers[w].pc = "make"
    /\ DirOf(workers[w]) \notin dirs
    /\ dirs' = dirs \cup {DirOf(workers[w])}
    /\ workers' = [workers EXCEPT ![w] = NextLevel(workers[w])]
    /\ UNCHANGED <<script, pool_args, tasks, num_chunks, dispatched, files, failed, skipped,
                   completed>>
    /\ UNCHANGED notBatchVars

\* Whether a process that is not followed can have made res_dir since unit k
\* tested it: the processes of the pool start their first chunks together.
MadeByAnother(k, d) ==
    /\ d = ResDir(script)
    /\ FirstRun(k)
    /\ Processes(script) > 1
    /\ num_chunks > 1

\* What the end of unit k means for the followed unit after it in the same
\* chunk.  mapstar runs the units of a chunk as list(map(func, chunk)): the
\* next unit runs in the same process after a return, and an exception ends
\* the chunk.
AfterUnit(w, k, normally) ==
    IF SameChunk(k + 1)
      THEN /\ dispatched' = k + 1
           /\ IF normally
                THEN /\ workers' = [workers EXCEPT ![w] = Entering(k + 1)]
                     /\ skipped' = skipped
                ELSE /\ workers' = [workers EXCEPT ![w] = IdleProcess]
                     /\ skipped' = skipped \cup {k + 1}
      ELSE /\ workers' = [workers EXCEPT ![w] = IdleProcess]
           /\ UNCHANGED <<dispatched, skipped>>

\* run_parallel_sims: os.makedirs(...) raises FileExistsError, another process
\* has made the directory since the test.
MakeDirRaises(w) ==
    /\ workers[w].pc = "make"
    /\ \/ DirOf(workers[w]) \in dirs
       \/ MadeByAnother(workers[w].unit, DirOf(workers[w]))
    /\ dirs' = dirs \cup {DirOf(workers[w])}
    /\ failed' = failed \cup {workers[w].unit}
    /\ AfterUnit(w, workers[w].unit, FALSE)
    /\ UNCHANGED <<script, pool_args, tasks, num_chunks, files, completed>>
    /\ UNCHANGED notBatchVars

\* The writers recorded for a path.
Writers(path) == IF path \in DOMAIN files THEN files[path] ELSE {}

\* run_parallel_sims: the next np.savetxt of the unit, not the last one.
SaveTxt(w) ==
    /\ workers[w].pc = "write"
    /\ \E paths \in {OutputPaths(script, pool_args[workers[w].unit])} :
         \E path \in {paths[workers[w].written + 1]} :
           /\ workers[w].written + 1 < Len(paths)
           /\ files' = [p \in DOMAIN files \cup {path} |->
                          IF p = path THEN Writers(p) \cup {workers[w].unit} ELSE files[p]]
           /\ workers' = [workers EXCEPT ![w].written = @ + 1]
    /\ UNCHANGED <<script, pool_args, tasks, num_chunks, dispatched, dirs, failed, skipped,
                   completed>>
    /\ UNCHANGED notBatchVars

\* run_parallel_sims: the last np.savetxt of the unit and the return.
SaveTxtAndReturn(w) ==
    /\ workers[w].pc = "write"
    /\ \E paths \in {OutputPaths(script, pool_args[workers[w].unit])} :
         \E path \in {paths[workers[w].written + 1]} :
           /\ workers[w].written + 1 = Len(paths)
           /\ files' = [p \in DOMAIN files \cup {path} |->
                          IF p = path THEN Writers(p) \cup {workers[w].unit} ELSE files[p]]
    /\ completed' = completed \cup {workers[w].unit}
    /\ AfterUnit(w, workers[w].unit, TRUE)
    /\ UNCHANGED <<script, pool_args, tasks, num_chunks, dirs, failed>>
    /\ UNCHANGED notBatchVars

BatchNext ==
    \E w \in DOMAIN workers :
        \/ PoolDispatch(w)
        \/ TestDir(w)
        \/ MakeDir(w)
        \/ MakeDirRaises(w)
        \/ SaveTxt(w)
        \/ SaveTxtAndReturn(w)

SpecBatch == BatchInit /\ [][BatchNext]_vars

PoolDone ==
    /\ dispatched = Len(pool_args)
    /\ \A w \in DOMAIN workers : workers[w].pc = "idle"

\* Unit k returned and every one of its output paths was written by it.
RanToCompletion(k) ==
    /\ k \in completed
    /\ \A n \in DOMAIN OutputPaths(script, pool_args[k]) :
         k \in Writers(OutputPaths(script, pool_args[k])[n])

\* C21: when a work unit has raised an exception in run_parallel_sims, every
\* other unit given to the same pool.map call still runs to completion and
\* writes its output files.
C21_FailureDoesNotStopOtherUnits ==
    (PoolDone /\ failed # {}) =>
        \A k \in DOMAIN pool_args : k \notin failed => RanToCompletion(k)

\* C29: pool processes that need the same result directory never fail while
\* creating it: whatever the interleaving of their exists / makedirs
\* sequences, no unit ends with the error of a directory that already exists.
C29_DirectoryCreationNeverFails == failed = {}

\* ===========================================================================
\* The PIC particle data model (pysrc/simulation/pic/data/particles/
\* charged_particle.py) and its test,
\* src/pysrc/simulation/pic/testing/data/particles/test_charged_particle.py.
\* ===========================================================================

\* np.linspace(start, stop, n): n evenly spaced samples, both ends included,
\* as fractions <<numerator, denominator>>.
LinspaceBetween(start, stop, n) ==
    [k \in 1..n |-> IF n = 1 THEN <<start, 1>>
                             ELSE <<start * (n - 1) + (stop - start) * (k - 1), n - 1>>]

\* unittest's assertAlmostEqual(first, second) with the default 7 places:
\* first == second or round(abs(first - second), 7) == 0.
AlmostEqual(first, second) ==
    20000000 * Abs(first[1] * second[2] - second[1] * first[2]) <= first[2] * second[2]

\* test_constructor, line 16: the arguments of the constructor call.
TestArguments ==
    [mass |-> <<1, 1>>, charge |-> <<2, 1>>,
     position |-> LinspaceBetween(1, 2, 3), velocity |-> LinspaceBetween(1, 2, 3)]

\* Vectors of three components, and of two and of four.
ParticleVectors ==
    {LinspaceBetween(1, 2, 3), LinspaceBetween(2, 1, 3), LinspaceBetween(0, 3, 3),
     LinspaceBetween(1, 2, 2), LinspaceBetween(1, 2, 4)}

ParticleArguments ==
    {[mass |-> m, charge |-> q, position |-> x, velocity |-> v] :
        m \in {<<1, 1>>, <<3, 2>>}, q \in {<<2, 1>>, <<-1, 1>>},
        x \in ParticleVectors, v \in ParticleVectors}

\* The constructor fails for a vector that does not have three components.
PICParticleError(a) == Len(a.position) # 3 \/ Len(a.velocity) # 3

\* Faulty variant of PICParticleFields: the velocity components are stored
\* in reverse order.
PICParticleFieldsReversed(a) ==
    [mass |-> a.mass, charge |-> a.charge, position |-> <<a.position>>,
     velocity |-> <<[i \in 1..3 |-> a.velocity[4 - i]]>>]

\* The constructor: mass and charge as given, the two 3-vectors as 1 x 3
\* arrays.
PICParticleFields(a) ==
    [mass |-> a.mass, charge |-> a.charge, position |-> <<a.position>>,
     velocity |-> <<a.velocity>>]

ParticleInit ==
    /\ pp_pc = "called"
    /\ pp_args \in ParticleArguments
    /\ pp_particle = <<>>
    /\ pp_test = "unset"
    /\ OthersIdleParticle

PICParticleConstruct ==
    /\ pp_pc = "called"
    /\ IF PICParticleError(pp_args)
         THEN pp_pc' = "error" /\ pp_particle' = pp_particle
         ELSE pp_pc' = "constructed" /\ pp_particle' = PICParticleFields(pp_args)
    /\ UNCHANGED <<pp_args, pp_test>>
    /\ UNCHANGED notParticleVars

\* test_constructor, lines 18-22: the five assertions.
TestAssertions(particle) ==
    /\ AlmostEqual(particle.mass, <<1, 1>>)
    /\ AlmostEqual(particle.charge, <<2, 1>>)
    /\ AlmostEqual(particle.velocity[1][1], <<1, 1>>)
    /\ AlmostEqual(particle.velocity[1][2], <<3, 2>>)
    /\ AlmostEqual(particle.velocity[1][3], <<2, 1>>)

TestConstructor ==
    /\ pp_pc = "constructed"
    /\ pp_pc' = "tested"
    /\ pp_test' = IF TestAssertions(pp_particle) THEN "pass" ELSE "fail"
    /\ UNCHANGED <<pp_args, pp_particle>>
    /\ UNCHANGED notParticleVars

ParticleNext == PICParticleConstruct \/ TestConstructor

SpecParticle == ParticleInit /\ [][ParticleNext]_vars

\* C22: the constructed particle has the mass and the charge it was given and
\* its velocity is a 1 x 3 array whose component i is the i-th component
\* supplied; for the arguments of test_constructor the assertions of the test
\* hold.
C22_ConstructorKeepsComponents ==
    /\ pp_pc \in {"constructed", "tested"} =>
         /\ pp_particle.mass = pp_args.mass
         /\ pp_particle.charge = pp_args.charge
         /\ Len(pp_particle.velocity) = 1
         /\ Len(pp_particle.velocity[1]) = 3
         /\ \A i \in 1..3 : pp_particle.velocity[1][i] = pp_args.velocity[i]
    /\ (pp_pc = "tested" /\ pp_args = TestArguments) => pp_test = "pass"

C22_Witness ==
    /\ pp_pc = "tested"
    /\ pp_args = TestArguments
    /\ pp_test = "pass"
    /\ pp_particle.velocity[1][2] = <<3, 2>>

\* ===========================================================================
\* process_radial_locations: the aggregation of the batch files of one
\* parameter combination
\* (src/sim_campaigns/electron_cusp_confinement/004-velocity-distributions/
\* process_velocity_distributions.py, lines 34-108).
\* ===========================================================================

\* The largest number of batch files of one kind.
MaxBatches == 4

\* None.
NoArray == <<>>

\* What np.loadtxt can read from a velocity file.
FileArrays == {<<1, 0>>, <<0, 2>>}

ArrayAdd(a, b) == [i \in DOMAIN a |-> a[i] + b[i]]

\* The files found for one parameter combination: n of each kind; the state
\* files can be one more.
ListedFiles ==
    UNION {
      {[radial |-> [c \in 1..n |-> <<c, 1>>], x |-> x, y |-> y, z |-> z, state |-> s] :
          x \in [1..n -> FileArrays], y \in [1..n -> FileArrays],
          z \in [1..n -> FileArrays], s \in {n} \cup (IF n = 1 THEN {2} ELSE {})} :
      n \in 0..MaxBatches}

\* Line 67: half_results = num_batches // 2.
HalfResults(num_batches) == num_batches \div 2

\* v_x if v_x_numbers is None else v_x + v_x_numbers
Accumulate(file, numbers) == IF numbers = NoArray THEN file ELSE ArrayAdd(file, numbers)

\* Lines 88, 94, 103: v_x_numbers if count < half_results else
\* v_x_numbers_half_set
HalfSet(numbers, half_set, count, half_results) ==
    IF count < half_results THEN numbers ELSE half_set

\* Faulty variant of HalfSetZ: the running sum is taken, as for x and y.
HalfSetZRunningSum(v_z, numbers, half_set, count, half_results) ==
    IF count < half_results THEN numbers ELSE half_set

\* Line 108: v_z if count < half_results else v_z_numbers_half_set
HalfSetZ(v_z, numbers, half_set, count, half_results) ==
    IF count < half_results THEN v_z ELSE half_set

AggregateInit ==
    /\ ag_pc = "listed"
    /\ ag_files \in ListedFiles
    /\ ag_count = 0
    /\ radial_numbers = NoArray /\ radial_numbers_half_set = NoArray
    /\ v_x_numbers = NoArray /\ v_y_numbers = NoArray /\ v_z_numbers = NoArray
    /\ v_x_numbers_half_set = NoArray
    /\ v_y_numbers_half_set = NoArray
    /\ v_z_numbers_half_set = NoArray
    /\ OthersIdleAggregate

accumulators == <<radial_numbers, radial_numbers_half_set, v_x_numbers, v_y_numbers,
                  v_z_numbers, v_x_numbers_half_set, v_y_numbers_half_set,
                  v_z_numbers_half_set>>

num_batches == Len(ag_files.radial)

\* Line 64: the assertion that there are as many files of every kind.
CheckFileCounts ==
    /\ ag_pc = "listed"
    /\ ag_pc' = IF ag_files.state = Len(ag_files.radial) THEN "radial" ELSE "error"
    /\ UNCHANGED <<ag_files, ag_count, accumulators>>
    /\ UNCHANGED notAggregateVars

\* Lines 84-88: one pass of the loop over position_files.
LoadRadial ==
    /\ ag_pc = "radial"
    /\ ag_count < num_batches
    /\ \E numbers \in {Accumulate(ag_files.radial[ag_count + 1], radial_numbers)} :
         /\ radial_numbers' = numbers
         /\ radial_numbers_half_set' =
              HalfSet(numbers, radial_numbers_half_set, ag_count, HalfResults(num_batches))
    /\ ag_count' = ag_count + 1
    /\ UNCHANGED <<ag_pc, ag_files, v_x_numbers, v_y_numbers, v_z_numbers,
                   v_x_numbers_half_set, v_y_numbers_half_set, v_z_numbers_half_set>>
    /\ UNCHANGED notAggregateVars

\* Lines 91-94: one pass of the loop over velocity_files_x.
LoadX ==
    /\ ag_pc = "x"
    /\ ag_count < num_batches
    /\ \E numbers \in {Accumulate(ag_files.x[ag_count + 1], v_x_numbers)} :
         /\ v_x_numbers' = numbers
         /\ v_x_numbers_half_set' =
              HalfSet(numbers, v_x_numbers_half_set, ag_count, HalfResults(num_batches))
    /\ ag_count' = ag_count + 1
    /\ UNCHANGED <<ag_pc, ag_files, radial_numbers, radial_numbers_half_set, v_y_numbers,
                   v_z_numbers, v_y_numbers_half_set, v_z_numbers_half_set>>
    /\ UNCHANGED notAggregateVars

\* Lines 100-103: one pass of the loop over velocity_files_y.
LoadY ==
    /\ ag_pc = "y"
    /\ ag_count < num_batches
    /\ \E numbers \in {Accumulate(ag_files.y[ag_count + 1], v_y_numbers)} :
         /\ v_y_numbers' = numbers
         /\ v_y_numbers_half_set' =
              HalfSet(numbers, v_y_numbers_half_set, ag_count, HalfResults(num_batches))
    /\ ag_count' = ag_count + 1
    /\ UNCHANGED <<ag_pc, ag_files, radial_numbers, radial_numbers_half_set, v_x_numbers,
                   v_z_numbers, v_x_numbers_half_set, v_z_numbers_half_set>>
    /\ UNCHANGED notAggregateVars

\* Lines 105-108: one pass of the loop over velocity_files_z.
LoadZ ==
    /\ ag_pc = "z"
    /\ ag_count < num_batches
    /\ \E numbers \in {Accumulate(ag_files.z[ag_count + 1], v_z_numbers)} :
         /\ v_z_numbers' = numbers
         /\ v_z_numbers_half_set' =
              HalfSetZ(ag_files.z[ag_count + 1], numbers, v_z_numbers_half_set, ag_count,
                       HalfResults(num_batches))
    /\ ag_count' = ag_count + 1
    /\ UNCHANGED <<ag_pc, ag_files, radial_numbers, radial_numbers_half_set, v_x_numbers,
                   v_y_numbers, v_x_numbers_half_set, v_y_numbers_half_set>>
    /\ UNCHANGED notAggregateVars

\* A file loop ends and the next one starts.
LoopEnds ==
    /\ ag_pc \in {"radial", "x", "y", "z"}
    /\ ag_count = num_batches
    /\ ag_pc' = CASE ag_pc = "radial" -> "x"
                  [] ag_pc = "x" -> "y"
                  [] ag_pc = "y" -> "z"
                  [] ag_pc = "z" -> "done"
    /\ ag_count' = 0
    /\ UNCHANGED <<ag_files, accumulators>>
    /\ UNCHANGED notAggregateVars

AggregateNext ==
    \/ CheckFileCounts
    \/ LoadRadial
    \/ LoadX
    \/ LoadY
    \/ LoadZ
    \/ LoopEnds

SpecAggregate == AggregateInit /\ [][AggregateNext]_vars

\* The sum of the first h arrays of a list, None for h = 0.
RECURSIVE SumOfFirst(_, _)
SumOfFirst(arrays, h) ==
    IF h = 0 THEN NoArray
    ELSE IF h = 1 THEN arrays[1]
    ELSE ArrayAdd(arrays[h], SumOfFirst(arrays, h - 1))

\* C23: after the files of a parameter combination are aggregated, the
\* half-set accumulators of x and y hold the sum of the first
\* floor(num_batches / 2) files, and the half-set accumulator of z holds the
\* array of the last file of that half alone (all three are None when the
\* half is empty).
C23_HalfSetOfZIsLastFile ==
    ag_pc = "done" =>
        /\ v_x_numbers_half_set = SumOfFirst(ag_files.x, HalfResults(num_batches))
        /\ v_y_numbers_half_set = SumOfFirst(ag_files.y, HalfResults(num_batches))
        /\ v_z_numbers_half_set =
             IF HalfResults(num_batches) = 0 THEN NoArray
             ELSE ag_files.z[HalfResults(num_batches)]

C23_Witness ==
    /\ ag_pc = "done"
    /\ HalfResults(num_batches) = 2
    /\ v_z_numbers_half_set # SumOfFirst(ag_files.z, 2)
    /\ v_x_numbers_half_set # ag_files.x[2]

\* ===========================================================================
\* The order of the two evolve calls of run_simulation
\* (src/pysrc/simulation/ryutov/coupled_coax/coupled_coaxial_liner_implosion.py).
\* ===========================================================================

\* The circuit has been evolved once more than the liner, or as often.
EvolveLead == Len(circuit_calls) - Len(liner_calls)

\* C24: in every step the circuit is evolved before the liner with the same
\* time index and the liner receives the current the circuit returned in that
\* step; the circuit leads the liner by 0 or 1 evolves, and by 0 when
\* run_simulation has returned.
C24_CircuitBeforeLinerSameStep ==
    /\ [](/\ EvolveLead \in {0, 1}
          /\ cc_pc = "returned" => EvolveLead = 0
          /\ \A k \in 1..Len(liner_calls) : liner_calls[k].ts = circuit_calls[k].ts)
    /\ [][/\ Len(circuit_calls') = Len(circuit_calls) + 1 => EvolveLead = 0
          /\ Len(liner_calls') = Len(liner_calls) + 1 =>
               /\ EvolveLead = 1
               /\ liner_calls'[Len(liner_calls')].ts = circuit_calls[Len(circuit_calls)].ts
               /\ liner_calls'[Len(liner_calls')].I = I]_vars

C24_Witness ==
    /\ cc_pc = "returned"
    /\ Len(liner_calls) >= 2
    /\ liner_calls[1].I # liner_calls[2].I
    /\ liner_calls[2].ts = 1

\* ===========================================================================
\* The two halves of single_time_step
\* (src/pysrc/simulation/coulomb_collisions/collision_models/
\* nanbu_collision_model.py, lines 185-205).
\* ===========================================================================

\* run_sim accepted the ensemble and has called single_time_step.
StepEntered == n_calls > 0 /\ nb_pc \in {"shuffled", "scattered", "failed"}

\* C25: for every ensemble run_sim accepts, single_time_step splits it into two
\* halves of equal size (N / 2 rows each for one species, the rows of species 1
\* and of species 2 for two), and the difference v_A - v_B is defined row by
\* row: neither the slices nor the subtraction raise.
C25_HalvesOfEqualSize ==
    /\ nb_pc \in {"shuffled", "scattered"} =>
         /\ Len(velocities_A) = Len(velocities_B)
         /\ Len(velocities_A) = half
         /\ nb_self.num_species = 2 => half = nb_self.number_densities[1]
         /\ nb_self.num_species = 1 => 2 * half = nb_self.number_densities[1]
    /\ StepEntered /\ nb_pc = "failed" => nb_error \notin {"TypeError", "ValueError"}

\* ===========================================================================
\* generate_sim_results: the thermalisation sweep
\* (src/scripts/product_reactant_thermalisation_calculations/nanbu_simulations/
\* stationary/product_reactant_sims.py, lines 23-162).
\* ===========================================================================

\* The largest number of density points of a sweep.
MaxDensityPoints == 3

\* N = int(1e4), line 24.
SimN == 10000

\* w_1 = int(1), line 26.
w_1 == 1

\* The density points handed in: multiples of N, so that w_b = int(n / N) is
\* 1, 2 or 3.
DensityPoints == {SimN * k : k \in 1..3}

ReactantNames == {"DT", "pB", "DD"}

\* names, line 40.
names == <<"reactant", "product">>

\* Lines 47-74: the beam p_1, the background ion p_2 and the charge state Z of
\* one fuel and one role; charges in units of the electron charge.
BeamSetup(name, fuel) ==
    IF name = "product" THEN
        IF fuel = "DT"
          THEN [error |-> "none", p_1 |-> [m |-> "6.64424e-27", q |-> 2],
                p_2 |-> [m |-> "5.0064125184e-27", q |-> 2], Z |-> 2]
        ELSE IF fuel = "pB"
          THEN [error |-> "none", p_1 |-> [m |-> "6.64424e-27", q |-> 2],
                p_2 |-> [m |-> "11.81 amu", q |-> 12], Z |-> 6]
        ELSE [error |-> "ValueError", p_1 |-> <<>>, p_2 |-> <<>>, Z |-> 0]
    ELSE
        IF fuel = "DT"
          THEN [error |-> "none", p_1 |-> [m |-> "5.0064125184e-27", q |-> 2],
                p_2 |-> [m |-> "5.0064125184e-27", q |-> 2], Z |-> 2]
        ELSE IF fuel = "pB"
          THEN [error |-> "none", p_1 |-> [m |-> "11.81 amu", q |-> 12],
                p_2 |-> [m |-> "11.81 amu", q |-> 12], Z |-> 6]
        ELSE [error |-> "ValueError", p_1 |-> <<>>, p_2 |-> <<>>, Z |-> 0]

\* Line 76.
electron == [m |-> "9.014e-31", q |-> -1]

\* Lines 79-82: the call NanbuCollisionModel(particle_numbers,
\* np.asarray([p_1, p_2, electron]), np.asarray([w_1, w_b, Z * w_b]),
\* coulomb_logarithm=10.0, frozen_species=...) for the density point n.
SimCall(setup, n) ==
    LET w_b == n \div SimN IN
      [number_densities |-> NdArray(<<SimN, SimN, SimN>>),
       particles |-> NdArray(<<setup.p_1, setup.p_2, electron>>),
       particle_weightings |-> NdArray(<<w_1, w_b, setup.Z * w_b>>),
       keywords |-> {"coulomb_logarithm", "frozen_species"}]

\* The parameters of NanbuCollisionModel.__init__ (nanbu_collision_model.py,
\* line 21).
ConstructorParameters ==
    {"number_densities", "particles", "particle_weightings", "coulomb_logarithm",
     "freeze_species_2"}

\* A call with a keyword the function does not define raises TypeError before
\* the body runs.
BindError(call) ==
    IF call.keywords \subseteq ConstructorParameters THEN "none" ELSE "TypeError"

ThermalInit ==
    /\ th_pc = "start"
    /\ reactant_name \in ReactantNames
    /\ th_densities \in UNION {[1..k -> DensityPoints] : k \in 0..MaxDensityPoints}
    /\ th_j = 0 /\ th_i = 0
    /\ th_call = <<>>
    /\ th_error = "none"
    /\ th_run_sims = 0
    /\ OthersIdleThermal

\* Lines 24-40: the parameters, the result dictionaries and the results
\* directory.
EnterSweep ==
    /\ th_pc = "start"
    /\ th_pc' = "loop"
    /\ UNCHANGED <<reactant_name, th_densities, th_j, th_i, th_call, th_error, th_run_sims>>
    /\ UNCHANGED notThermalVars

\* Lines 41-79: one density point of one role, up to the constructor call.
SetUpBeam ==
    /\ th_pc = "loop"
    /\ th_j < Len(names)
    /\ th_i < Len(th_densities)
    /\ LET setup == BeamSetup(names[th_j + 1], reactant_name) IN
         IF setup.error # "none"
           THEN /\ th_pc' = "failed" /\ th_error' = setup.error
                /\ th_call' = th_call
           ELSE /\ th_pc' = "instantiate" /\ th_error' = th_error
                /\ th_call' = SimCall(setup, th_densities[th_i + 1])
    /\ UNCHANGED <<reactant_name, th_densities, th_j, th_i, th_run_sims>>
    /\ UNCHANGED notThermalVars

\* Lines 81-145: the constructor call, and after it sim.run_sim (line 110) and
\* the evaluation of its result.
Instantiate ==
    /\ th_pc = "instantiate"
    /\ \E file_present \in BOOLEAN :
         LET error == IF BindError(th_call) # "none" THEN BindError(th_call)
                      ELSE ConstructError(th_call, file_present)
         IN IF error # "none"
              THEN /\ th_pc' = "failed" /\ th_error' = error
                   /\ UNCHANGED <<th_i, th_run_sims>>
              ELSE /\ th_pc' = "loop" /\ th_error' = th_error
                   /\ th_run_sims' = th_run_sims + 1
                   /\ th_i' = th_i + 1
    /\ th_call' = <<>>
    /\ UNCHANGED <<reactant_name, th_densities, th_j>>
    /\ UNCHANGED notThermalVars

\* Lines 147-150: the density points of one role are done, its results are
\* saved and the next role starts.
NextName ==
    /\ th_pc = "loop"
    /\ th_j < Len(names)
    /\ th_i = Len(th_densities)
    /\ th_j' = th_j + 1
    /\ th_i' = 0
    /\ UNCHANGED <<th_pc, reactant_name, th_densities, th_call, th_error, th_run_sims>>
    /\ UNCHANGED notThermalVars

\* Lines 152-162: both roles are done.
SweepDone ==
    /\ th_pc = "loop"
    /\ th_j = Len(names)
    /\ th_pc' = "done"
    /\ UNCHANGED <<reactant_name, th_densities, th_j, th_i, th_call, th_error, th_run_sims>>
    /\ UNCHANGED notThermalVars

ThermalNext ==
    \/ EnterSweep
    \/ SetUpBeam
    \/ Instantiate
    \/ NextName
    \/ SweepDone

SpecThermal == ThermalInit /\ [][ThermalNext]_vars

\* C27: for the fuels DT and pB the sweep builds the Nanbu model in a
\* configuration the constructor accepts (at most 2 species, equal densities,
\* only keywords the constructor defines), so no call is rejected and run_sim
\* is reached for every density point of both roles.
C27_SweepReachesRunSim ==
    reactant_name \in {"DT", "pB"} =>
        /\ th_pc = "instantiate" =>
             /\ ~TooManySpecies(th_call.number_densities.shape[1])
             /\ DensitiesEqual(th_call.number_densities)
             /\ th_call.keywords \subseteq ConstructorParameters
        /\ th_error \notin {"TypeError", "RuntimeError", "AssertionError"}
        /\ th_pc = "done" => th_run_sims = Len(names) * Len(th_densities)

\* ===========================================================================
\* get_particle_count: the radial and velocity histograms of one batch
\* (src/sim_campaigns/electron_cusp_confinement/run_sim.py, lines 242-272;
\* 006-uniform_e_field/run_uniform_e_field_sims.py, lines 208-235;
\* 004-velocity-distributions/generate_velocity_distributions.py, lines
\* 163-190).
\* ===========================================================================

\* The largest number of edges of radial_bins.
MaxBinEdges == 3

CountScripts == {"run_sim", "006", "004"}

\* The edges handed in: 0, 1, ..., n - 1, indexed from 0 as in the code.
BinEdges(n) == [k \in 0..(n - 1) |-> k]

\* The velocity components a particle can have: the last one is the upper edge
\* of velocity_bins, which no velocity bin holds.
VelocityValues == 0..2

\* velocity_bins: the edges 0, 1, 2.
VelocityBinEdges == BinEdges(3)

\* The particles of a batch: at most two, each with a radial position and
\* three velocity components.
ParticleSets(n) ==
    UNION {[1..c -> [r : 0..(n - 1), v : [0..2 -> VelocityValues]]] : c \in 0..2}

\* The number of edges of an array indexed from 0.
Edges(bins) == Cardinality(DOMAIN bins)

\* np.where(np.logical_and(values >= bin_min, values < bin_max)): the members
\* of a set of particle indices whose value lies in interval i of bins.
PointsInRange(selected, value(_), bins, i) ==
    {p \in selected : value(p) >= bins[i - 1] /\ value(p) < bins[i]}

\* Line 254: the index of position_count that takes the count of interval i.
PositionIndex(i) == i - 1

\* Lines 268-270: the radial index of velocity_count that takes the histogram
\* of interval i.
VelocityRadialIndex(i) == i

\* Lines 268-270: the velocity index that takes the count of velocity
\* interval j; generate_velocity_distributions.py writes column j of an array
\* that has one column more.
VelocityIndex(s, j) == IF s = "004" THEN j ELSE j - 1

\* Line 247: the number of columns of velocity_count.
VelocityColumns(s, velocity_bins) ==
    IF s = "004" THEN Edges(velocity_bins) ELSE Edges(velocity_bins) - 1

\* get_particle_count(radial_bins, velocity_bins, radial_positions, v_x, v_y,
\* v_z): the two arrays it returns.
GetParticleCount(s, a) ==
    LET n == Edges(a.radial_bins)
        particles == DOMAIN a.particles
        InRadial(i) == PointsInRange(particles, LAMBDA p : a.particles[p].r, a.radial_bins, i)
        InVelocity(i, axis, j) ==
            PointsInRange(InRadial(i), LAMBDA p : a.particles[p].v[axis], a.velocity_bins, j)
    IN [position_count |->
          [k \in 0..(n - 1) |->
             IF \E i \in 1..(n - 1) : PositionIndex(i) = k
               THEN Cardinality(InRadial(CHOOSE i \in 1..(n - 1) : PositionIndex(i) = k))
               ELSE 0],
        velocity_count |->
          [axis \in 0..2 |->
             [k \in 0..(n - 1) |->
                [c \in 0..(VelocityColumns(s, a.velocity_bins) - 1) |->
                   IF \E i \in 1..(n - 1), j \in 1..(Edges(a.velocity_bins) - 1) :
                        VelocityRadialIndex(i) = k /\ VelocityIndex(s, j) = c
                     THEN LET ij == CHOOSE ij \in (1..(n - 1)) \X (1..(Edges(a.velocity_bins) - 1)) :
                                      VelocityRadialIndex(ij[1]) = k /\ VelocityIndex(s, ij[2]) = c
                          IN Cardinality(InVelocity(ij[1], axis, ij[2]))
                     ELSE 0]]]]

CountInit ==
    /\ cn_pc = "called"
    /\ cn_script \in CountScripts
    /\ \E n \in 1..MaxBinEdges, particles \in ParticleSets(MaxBinEdges) :
         /\ \A p \in DOMAIN particles : particles[p].r < n
         /\ cn_args = [radial_bins |-> BinEdges(n), velocity_bins |-> VelocityBinEdges,
                       particles |-> particles]
    /\ position_count = <<>>
    /\ velocity_count = <<>>
    /\ OthersIdleCount

\* The call of get_particle_count and its return.
CountParticles ==
    /\ cn_pc = "called"
    /\ cn_pc' = "returned"
    /\ position_count' = GetParticleCount(cn_script, cn_args).position_count
    /\ velocity_count' = GetParticleCount(cn_script, cn_args).velocity_count
    /\ UNCHANGED <<cn_script, cn_args>>
    /\ UNCHANGED notCountVars

CountNext == CountParticles

SpecCount == CountInit /\ [][CountNext]_vars

\* The sum of the entries of an array indexed from 0.
RECURSIVE SumOfRow(_, _)
SumOfRow(row, c) == IF c < 0 THEN 0 ELSE row[c] + SumOfRow(row, c - 1)

\* C28: the position count and the velocity histogram of one radial interval
\* are stored under the same radial index: for every radial index k and every
\* axis the velocity counts of row k sum to at most position_count[k].
C28_VelocityCountsWithinPositionCount ==
    cn_pc = "returned" =>
        \A axis \in 0..2 : \A k \in DOMAIN position_count :
            SumOfRow(velocity_count[axis][k], Cardinality(DOMAIN velocity_count[axis][k]) - 1)
                <= position_count[k]

\* ===========================================================================
\* The direction of integration in determine_stability
\* (src/pysrc/theory/newcomb_stability/newcomb_solver.py, lines 139-167).
\* ===========================================================================

\* The outer end of the grid, r_max of line 140.
GridEnd == nc_self.r[Len(nc_self.r)]

\* The integration logged for a list entry starts at the outer end of the grid
\* and runs inward to the previous crossing.
Inward(e) ==
    /\ e.entry > 1
    /\ e.segment.r_start = GridEnd
    /\ e.segment.from = GridEnd
    /\ e.segment.to = DAdd(r_crossings[e.entry - 1], nc_self.cross_tol)

\* The integration logged for a list entry starts at the first grid radius
\* (first entry) or at the previous crossing plus cross_tol, and runs outward
\* to the crossing of the entry; the samples start cross_tol after r_start.
Outward(e) ==
    /\ e.segment.r_start = IF e.entry = 1 THEN nc_self.r[1]
                           ELSE DAdd(r_crossings[e.entry - 1], nc_self.cross_tol)
    /\ e.segment.from = DAdd(e.segment.r_start, nc_self.cross_tol)
    /\ e.segment.to = DSub(r_crossings[e.entry], nc_self.cross_tol)

\* C26 as stated: the first segment is integrated outward from the axis, with
\* more than 2 entries in the crossing list the interior segments are
\* integrated inward from the outer boundary, and every outward segment after
\* the first starts at the previous crossing plus cross_tol.
C26_InteriorSegmentsInward ==
    \A k \in 1..Len(segments) :
        /\ segments[k].entry = 1 => Outward(segments[k])
        /\ (Len(r_crossings) > 2 /\ segments[k].entry > 1
              /\ segments[k].entry < Len(r_crossings)) => Inward(segments[k])
        /\ ~Inward(segments[k]) => Outward(segments[k])

\* C26, amended: the first segment is integrated outward from the first grid
\* radius; with more than 2 entries in the crossing list every segment is
\* integrated outward, and a segment is integrated inward from the outer end
\* of the grid, instead of outward, only as the second of exactly 2 entries;
\* every outward segment after the first starts at the previous crossing plus
\* cross_tol.
C26_InwardOnlyForSecondOfTwo ==
    \A k \in 1..Len(segments) :
        /\ segments[k].entry = k
        /\ IF Len(r_crossings) = 2 /\ k = 2
             THEN Inward(segments[k])
             ELSE Outward(segments[k])

C26_Witness ==
    /\ nc_pc = "returned"
    /\ Len(r_crossings) > 2
    /\ Len(segments) = Len(r_crossings)
    /\ ~Inward(segments[2])
    /\ segments[2].segment.r_start # GridEnd

C26_WitnessOfTwo ==
    /\ nc_pc = "returned"
    /\ Len(r_crossings) = 2
    /\ Len(segments) = 2
    /\ Inward(segments[2])
    /\ ~Outward(segments[2])

\* ===========================================================================
\* The crossing list over several calls on one solver
\* (src/pysrc/theory/newcomb_stability/newcomb_solver.py, lines 57, 62-103
\* and 132-169).
\* ===========================================================================

\* The list one scan of the grid produces: the crossings it records and the
\* end marker.
SingleScanList == Append(ScanCrossings, GridEnd)

\* C30: the crossing list is built once and then only read: after any
\* sequence of find_zero_crossings_in_f and determine_stability calls it is
\* the list of a single scan, and determine_stability does not change it.
C30_CrossingListBuiltOnce ==
    /\ []((nc_scans >= 1 /\ nc_pc \in {"scanned", "stability", "returned"})
             => r_crossings = SingleScanList)
    /\ [][nc_pc' \in {"stability", "returned"} => r_crossings' = r_crossings]_vars

====
